---------------------------- MODULE Spec2Model ----------------------------
(***************************************************************************)
(* The console automation engine of iosxr_pexpect.py: read_data, wait,     *)
(* repeat_until, must_get_cisco_ip_address and the XR login loop           *)
(* wait_xr_login, driven by a console transport whose output is chosen by  *)
(* the environment.                                                        *)
(*                                                                         *)
(* Time is counted in ticks, TicksPerSec to the second.  A time.sleep(n)   *)
(* lasts n seconds plus Overhead ticks: the clock read after a sleep is    *)
(* strictly later than n seconds after the clock read before it.  All      *)
(* other statements take no time.                                          *)
(*                                                                         *)
(* Console text is a sequence of tokens (a token stands for a run of       *)
(* characters, "\n" for the line terminator).  A regular expression is a   *)
(* sequence of elements: a class of tokens, "." (one token that is not the *)
(* line terminator) or ".*" (any run of such tokens); re.search is         *)
(* computed on the tokens.                                                 *)
(***************************************************************************)
EXTENDS Integers, Sequences, FiniteSets, TLC

\* ------------------------------------------------------------ bounds
\* Clock resolution, and the ticks by which a sleep overshoots.
TicksPerSec == 10
Overhead == 1
\* Node.maxtime in seconds (1800 in the source, scaled down here): the value
\* of the node driven through wait, repeat_until and must_get, and the value
\* of the node that logs in.
WaitMaxtime == 23
LoginMaxtime == 21
\* Tokens one read_data call can return, and tokens the target emits
\* during one wait call.
MaxChunk == 2
MaxOut == 3
\* The scripted target of repeat_until answers the N-th probe, N <= MaxProbes.
MaxProbes == 4
\* The clock when an operation is called (time.time() is far from 0).
Epoch == 1000
\* Node.maxtime, in seconds, of the node whose two sessions are driven by a
\* client, and the seconds during which the client calls operations.
SessMaxtime == 2
Horizon == 2
\* Tokens that can lie unread on a transport between operations.
MaxPending == 1
\* Node.maxtime, in seconds, of the node whose console goes away while an
\* operation is waiting on it.
ClosureMaxtime == 12
\* The most commands given with -cmds, and Node.maxtime, in seconds, of the
\* node that main's configuration builds.
MaxCmds == 5
MainMaxtime == 11
\* Node.maxtime, in seconds, of the node setup_networking configures.
SetupMaxtime == 4
\* The largest result handed to check_result.
MaxIndex == 3

\* ------------------------------------------------- program constants
WaitNudgeSecs == 10
LoginNudgeSecs == 5
LoginReadSecs == 5
UsernameRepeatSecs == 5
UsernameSleepSecs == 1
GetIpSleepSecs == 2
DefaultTimeoutSecs == 1
SetupRepeatTimeoutSecs == 5
PromptNudgeSecs == 10
ProbeSleepSecs == 2
\* RETRY_INTERVAL and TIMEOUT of iosxr_iso2vbox.py, in seconds, and the
\* `total` of xr_cli_wait_for_output.
RETRY_INTERVAL == 5
TIMEOUT == 600
RetryTotal == 5

Secs(n) == n * TicksPerSec

\* ------------------------------------------------------ regular expressions
NL == "\n"
Cls(S) == [k |-> "cls", c |-> S]
Lit(t) == Cls({t})
AnyTok == [k |-> "any", c |-> {}]
Star == [k |-> "star", c |-> {}]

ElemMatches(e, t) ==
    CASE e.k = "cls" -> t \in e.c
      [] e.k = "any" -> t # NL
      [] OTHER -> FALSE

\* Does pattern p, from element i on, match s starting at position j?
RECURSIVE MatchHere(_, _, _, _)
MatchHere(p, i, s, j) ==
    IF i > Len(p) THEN TRUE
    ELSE IF p[i].k = "star"
         THEN \/ MatchHere(p, i + 1, s, j)
              \/ /\ j <= Len(s)
                 /\ s[j] # NL
                 /\ MatchHere(p, i, s, j + 1)
         ELSE /\ j <= Len(s)
              /\ ElemMatches(p[i], s[j])
              /\ MatchHere(p, i + 1, s, j + 1)

\* re.search(p, s, re.MULTILINE): a match starting anywhere in s.
ReSearch(p, s) == \E j \in 1..(Len(s) + 1) : MatchHere(p, 1, s, j)

\* string.split(data, '\n'): the pieces between line terminators; never empty.
RECURSIVE SplitLines(_)
SplitLines(s) ==
    IF \A j \in 1..Len(s) : s[j] # NL THEN <<s>>
    ELSE LET j == CHOOSE x \in 1..Len(s) :
                      s[x] = NL /\ \A y \in 1..(x - 1) : s[y] # NL
         IN <<SubSeq(s, 1, j - 1)>> \o SplitLines(SubSeq(s, j + 1, Len(s)))

\* All sequences over S of length 0..n.
RECURSIVE SeqsUpTo(_, _)
SeqsUpTo(S, n) ==
    IF n = 0 THEN {<<>>}
    ELSE LET shorter == SeqsUpTo(S, n - 1)
         IN shorter \cup {Append(q, x) : q \in shorter, x \in S}

Min(a, b) == IF a < b THEN a ELSE b

\* ------------------------------------------------------------ state
VARIABLES
    now,                        \* time.time(), in ticks
    maxtime,                    \* Node.maxtime, in seconds
    pc,                         \* where the running operation stands
    caller,                     \* "none", the operation that called wait, or
                                \* the prompt wait that is running
    time_started,               \* local of wait / repeat_until / wait_xr_login
    time_pressed_enter,         \* local of wait / wait_xr_login
    time_seen_username_prompt,  \* local of wait_xr_login
    mg_started,                 \* time_started of must_get_cisco_ip_address
    wait_txt,                   \* the pattern wait / repeat_until looks for
    timeout,                    \* the read slice of the call, in seconds
    data,                       \* what the last read_data returned
    reply,                      \* the lines send() wrote in the last step
    sent,                       \* the lines send() wrote since the operation began
    slice,                      \* how long the last read_data call took
    delivered,                  \* everything read since the wait began
    op_started,                 \* when the outermost operation was called
    answer_at,                  \* repeat_until's target answers this probe (0: never)
    username,                   \* credentials passed to wait_xr_login
    userpass,
    script_pos,                 \* how far the target has followed LoginScript
    prompt_at,                  \* when the target printed the username prompt that
                                \* ended the last read (0: it ended otherwise)
    err,                        \* the exception that ended the operation
    sessions,                   \* Node.sessions: the sessions and their transports
    cur,                        \* index of the session the operation runs on
    opts,                       \* the parsed command line (opts.clean, opts.cmds)
    mpc,                        \* where IosxrPexpect.main stands
    hooks,                      \* the hooks main has invoked, in order
    loc,                        \* locals of the running function of a script
    env,                        \* what the script acts on: the VM, the target
    issued                       \* the external commands the script has issued

vars == <<now, maxtime, pc, caller, time_started, time_pressed_enter,
          time_seen_username_prompt, mg_started, wait_txt, timeout, data,
          reply, sent, slice, delivered, op_started, answer_at, username,
          userpass, script_pos, prompt_at, err, sessions, cur, opts, mpc,
          hooks, loc, env, issued>>
\* The state of the scripts outside the engine.
scriptVars == <<loc, env, issued>>
\* The state of main and of the command line.
mainVars == <<opts, mpc, hooks, scriptVars>>
\* The locals and arguments of the engine's operations.
engineVars == <<maxtime, caller, time_started, time_pressed_enter,
                time_seen_username_prompt, mg_started, wait_txt, timeout,
                sent, slice, delivered, op_started, answer_at, username,
                userpass, script_pos, prompt_at>>

\* time.sleep(n) entered at clock t returns at this clock.
SleepEnd(t, n) == t + Secs(n) + Overhead

\* ------------------------------------------------- nodes and sessions
\* class tty: xr, aux, admin, host = range(4); wait_xr_login uses tty.xr.
TtyXr == 0
\* self.ttys of Node.__init__
Ttys == <<"xr", "aux", "admin", "host">>
\* self.ports of Node.__init__: empty, and nothing fills it.
Ports == <<>>
\* opts.cmds when -cmds is not given.  -cmds takes one command or more
\* (nargs='+'), so the empty list is free to stand for None.
None == <<>>
\* The name XrLogin gives its node.
NodeName == "xr"

\* IosxrPexpect.NodeSession(self, port, port_name, pexpect.spawn(cmd)): the
\* session and its transport.  unread: output of the target not yet read;
\* wrote: what the last step of an operation wrote to the transport; eof:
\* the child has gone; closed, closes: pexpect's closed flag and how often
\* the descriptor was closed.  stale: how many of the unread tokens the
\* target printed before the last send() call; got_stale: how many of the
\* tokens the last read returned it had printed before that send;
\* drained: a read_data call returned and nothing was printed since;
\* clean_send: the last send() call found the session drained.
NewSession(port_name) ==
    [port_name |-> port_name, unread |-> <<>>, wrote |-> <<>>,
     eof |-> FALSE, closed |-> FALSE, closes |-> 0,
     stale |-> 0, got_stale |-> 0, drained |-> FALSE, clean_send |-> FALSE]

\* self.name = "(%s:%s %s)" % (node.name, port, port_name)
SessionName(ss, s) == <<NodeName, ss[s].port_name>>

SpawnedFirst(ss, port_name) == <<NewSession(port_name)>> \o ss
\* pexpect_spawn: self.sessions.append(self.session)
Spawned(ss, port_name) == Append(ss, NewSession(port_name))

\* The port names spawn_all_telnet_sessions goes through: the commands of
\* -cmds, or else one tty name per port.
PortNames(cmds) ==
    IF cmds = None THEN [i \in 1..Len(Ports) |-> Ttys[i]] ELSE cmds

\* spawn_all_telnet_sessions: one pexpect_spawn per port name, in order.
RECURSIVE SpawnAll(_, _)
SpawnAll(ss, names) ==
    IF names = <<>> THEN ss
    ELSE SpawnAll(Spawned(ss, Head(names)), Tail(names))

\* The exceptions the engine raises, by the fields of their message.
NoError == [kind |-> "none", session |-> <<>>, about |-> <<>>]
\* "%s EOF on connection for: %s" % (session.name, debug)
EofError(name, debug) ==
    [kind |-> "EOF on connection for", session |-> name, about |-> <<debug>>]
\* "%s timed out (%s) trying to match %s" % (session.name, debug, wait_txt)
WaitError(name, debug, txt) ==
    [kind |-> "timed out trying to match", session |-> name,
     about |-> <<debug, txt>>]
\* "%s timed out (%s) trying to match %s" % (session.name, debug, send_txt)
RepeatError(name, debug, send_txt, match_txt) ==
    [kind |-> "timed out trying to match", session |-> name,
     about |-> <<debug, send_txt>>]
\* "%s timed out trying to login to XR" % session.name
LoginError(name) ==
    [kind |-> "timed out trying to login to XR", session |-> name,
     about |-> <<>>]
\* "%s timed out trying to get into exec mode" % session.name, and the
\* same for "conf t mode"
PromptError(name, op) ==
    [kind |-> IF op = "wait_xr_exec"
              THEN "timed out trying to get into exec mode"
              ELSE "timed out trying to get into conf t mode",
     session |-> name, about |-> <<>>]
\* NodeSession.fatal("Failed to get IP address for %s" % nic)
GetIpError(name, nic) ==
    [kind |-> "Failed to get IP address for", session |-> name,
     about |-> <<nic>>]

SendRaw(txt) == <<txt>>
\* session.pexpect.sendline(send_txt): the text and the line terminator.
SendLine(txt) == <<txt, NL>>

\* What a sequence of send() calls writes.
RECURSIVE Lines(_)
Lines(out) == IF out = <<>> THEN <<>> ELSE SendLine(Head(out)) \o Lines(Tail(out))

TargetLastSpawned(s) == Len(sessions)
\* The transport an operation on session s uses: session.pexpect.
Target(s) == s

\* The sessions after an operation step on session s that wrote the lines
\* `out` and read nothing.
Sent(ss, s, out) ==
    [ss EXCEPT ![Target(s)].wrote = Lines(out)]

ReadKeeps(tr) == [tr EXCEPT !.got_stale = tr.stale, !.drained = TRUE]
\* read_nonblocking(size=10000): everything read is gone from the transport.
ReadTakes(tr) ==
    [tr EXCEPT !.unread = <<>>, !.got_stale = tr.stale, !.stale = 0,
               !.drained = TRUE]

\* The sessions after an operation step on session s that called read_data
\* once and wrote the lines `out`; raised: read_data met end-of-stream.
Passed(ss, s, out, raised) ==
    [ss EXCEPT ![Target(s)] =
        IF raised
        THEN [@ EXCEPT !.wrote = Lines(out), !.eof = TRUE]
        ELSE [ReadTakes(@) EXCEPT !.wrote = Lines(out)]]

\* What a read_data call on session s can find: the unread output and what
\* arrives during the sleep (one of `chunks`); when the child has gone,
\* nothing arrives, and the read of an empty transport meets end-of-stream.
\* mayclose: the child can go during the sleep.
Arrives(s, chunks, mayclose) ==
    LET tr == sessions[Target(s)]
    IN IF tr.eof
       THEN {[d |-> tr.unread, eof |-> tr.unread = <<>>]}
       ELSE {[d |-> tr.unread \o c, eof |-> FALSE] : c \in chunks}
               \cup (IF mayclose /\ tr.unread = <<>>
                     THEN {[d |-> <<>>, eof |-> TRUE]} ELSE {})


\* ------------------------------------------------------ the transport
\* Tokens of the console output seen by wait and repeat_until.
TokConfig == "config"
TokIf == "-if"
TokHash == "#"
TokIp == "Internet address is 10.0.2.15/24"
Sym == {TokConfig, TokIf, TokHash}
\* Tokens of the answer to must_get's show command.
ShowSym == {TokHash, TokIp}

\* What one read can find on the transport while `room` more tokens may be
\* emitted: any chunk of at most MaxChunk tokens.
Chunks(room, from) ==
    IF room <= 0 THEN {<<>>}
    ELSE SeqsUpTo(IF from = "must_get" THEN ShowSym ELSE Sym, Min(MaxChunk, room))

\* read_data(session, debug, timeout) called at clock t with `avail` on the
\* transport (eof: the child has gone): sleeps, then returns all of avail, or
\* raises on end-of-stream.
ReadDataSwallowsEof(t, secs, avail, eof) ==
    [now |-> SleepEnd(t, secs), eof |-> FALSE,
     data |-> IF eof THEN <<>> ELSE avail, took |-> SleepEnd(t, secs) - t]
ReadDataEofOnEmpty(t, secs, avail, eof) ==
    [now |-> SleepEnd(t, secs), eof |-> eof \/ avail = <<>>,
     data |-> IF eof THEN <<>> ELSE avail, took |-> SleepEnd(t, secs) - t]
ReadData(t, secs, avail, eof) ==
    [now |-> SleepEnd(t, secs), eof |-> eof,
     data |-> IF eof THEN <<>> ELSE avail, took |-> SleepEnd(t, secs) - t]

\* ------------------------------------------------------------- wait
\* The debug argument of wait: "" by default, get_cisco_ip_address passes its own.
WaitDebug(from) == IF from = "must_get" THEN "Get IP address" ELSE ""
PromptRe == <<Cls({"$", TokHash})>>
ConfigIfRe == <<Lit(TokConfig), Lit(TokIf)>>
WaitPatterns == {PromptRe, ConfigIfRe}
WaitTimeouts == {DefaultTimeoutSecs, SetupRepeatTimeoutSecs}

WithinTwiceMaxtime(t, started) == t - started < 2 * Secs(maxtime)
\* while time.time() - time_started < self.maxtime
WithinMaxtime(t, started) == t - started < Secs(maxtime)

\* if re.search(wait_txt, data, re.MULTILINE)
WaitMatches(p, d) == ReSearch(p, d)

WaitNudgeDueEarly(t, pressed) == t - pressed > Secs(LoginNudgeSecs)
\* if (time.time() - time_pressed_enter) > 10
WaitNudgeDue(t, pressed) == t - pressed > Secs(WaitNudgeSecs)

EnterWaitSharedStart(p, secs, t, from) ==
    /\ wait_txt' = p
    /\ timeout' = secs
    /\ time_started' = IF from = "must_get" THEN mg_started ELSE t
    /\ time_pressed_enter' = t
    /\ delivered' = <<>>
    /\ caller' = from
    /\ pc' = "wait_loop"
\* The entry of wait(): both timers start at the call.
EnterWait(p, secs, t, from) ==
    /\ wait_txt' = p
    /\ timeout' = secs
    /\ time_started' = t
    /\ time_pressed_enter' = t
    /\ delivered' = <<>>
    /\ caller' = from
    /\ pc' = "wait_loop"

WaitCall ==
    /\ pc = "idle"
    /\ \E p \in WaitPatterns, secs \in WaitTimeouts :
          EnterWait(p, secs, now, "none")
    /\ op_started' = now
    /\ data' = <<>>
    /\ reply' = <<>>
    /\ sent' = <<>>
    /\ UNCHANGED <<now, maxtime, time_seen_username_prompt, mg_started, slice,
                   answer_at, username, userpass, script_pos, prompt_at>>
    /\ err' = NoError
    /\ UNCHANGED <<sessions, cur, mainVars>>

\* r'Internet address is (\S+)\/(\S+)' of get_cisco_ip_address.
IpRe == <<Lit(TokIp)>>

\* What the caller of wait does with the data wait returned.
AfterWait(from, d) ==
    IF from = "must_get"
    THEN IF ReSearch(IpRe, d) THEN "mg_returned" ELSE "mg_loop"
    ELSE "wait_returned"

\* wait's frame after a read: the locals stay, the read is recorded.
InWait(r, pressed) ==
    /\ time_pressed_enter' = pressed
    /\ slice' = r.took
    /\ data' = r.data
    /\ delivered' = delivered \o r.data
    /\ UNCHANGED <<caller, time_started, wait_txt, timeout>>

\* wait has returned into must_get's loop with no address found: the frames
\* of wait and get_cisco_ip_address are gone.
LeaveWait ==
    /\ caller' = "none"
    /\ time_started' = 0
    /\ time_pressed_enter' = 0
    /\ wait_txt' = <<>>
    /\ timeout' = DefaultTimeoutSecs
    /\ slice' = 0
    /\ data' = <<>>
    /\ delivered' = <<>>

\* One pass of wait's while loop.
WaitIter ==
    /\ pc = "wait_loop"
    /\ WithinMaxtime(now, time_started)
    /\ \E o \in Arrives(cur, Chunks(MaxOut - Len(delivered), caller), TRUE) :
       LET r == ReadData(now, timeout, o.d, o.eof)
       IN /\ now' = r.now
          /\ IF r.eof
             THEN /\ pc' = "eof"
                  /\ reply' = <<>>
                  /\ InWait(r, time_pressed_enter)
                  /\ UNCHANGED sent
             ELSE IF WaitMatches(wait_txt, r.data)
             THEN /\ pc' = AfterWait(caller, r.data)
                  /\ reply' = <<>>
                  /\ IF AfterWait(caller, r.data) = "mg_loop"
                     THEN LeaveWait
                     ELSE InWait(r, time_pressed_enter)
                  /\ UNCHANGED sent
             ELSE IF WaitNudgeDue(r.now, time_pressed_enter)
             THEN /\ reply' = <<"">>
                  /\ sent' = Append(sent, "")
                  /\ pc' = "wait_loop"
                  /\ InWait(r, r.now)
             ELSE /\ reply' = <<>>
                  /\ pc' = "wait_loop"
                  /\ InWait(r, time_pressed_enter)
                  /\ UNCHANGED sent
    /\ UNCHANGED <<maxtime, time_seen_username_prompt, mg_started,
                   op_started, answer_at, username, userpass, script_pos,
                   prompt_at>>
    /\ err' = IF pc' = "eof"
              THEN EofError(SessionName(sessions, cur), WaitDebug(caller))
              ELSE err
    /\ sessions' = Passed(sessions, cur, reply', pc' = "eof")
    /\ UNCHANGED <<cur, mainVars>>

\* The loop condition fails: raise "timed out ... trying to match".
WaitTimeout ==
    /\ pc = "wait_loop"
    /\ ~WithinMaxtime(now, time_started)
    /\ pc' = "wait_timed_out"
    /\ reply' = <<>>
    /\ UNCHANGED <<now, maxtime, caller, time_started, time_pressed_enter,
                   time_seen_username_prompt, mg_started, wait_txt, timeout,
                   data, sent, slice, delivered, op_started, answer_at,
                   username, userpass, script_pos, prompt_at>>
    /\ err' = WaitError(SessionName(sessions, cur), WaitDebug(caller), wait_txt)
    /\ UNCHANGED <<sessions, cur, mainVars>>

\* ------------------------------------------ must_get_cisco_ip_address
MgmtNic == "MgmtEth0/RP0/CPU0/0"
ShowIpCmd == "show ipv4 interface MgmtEth0/RP0/CPU0/0 | i Internet address"

MustGetCall ==
    /\ pc = "idle"
    /\ pc' = "mg_loop"
    /\ mg_started' = now
    /\ op_started' = now
    /\ caller' = "none"
    /\ data' = <<>>
    /\ reply' = <<>>
    /\ sent' = <<>>
    /\ UNCHANGED <<now, maxtime, time_started, time_pressed_enter,
                   time_seen_username_prompt, wait_txt, timeout, slice,
                   delivered, answer_at, username, userpass, script_pos,
                   prompt_at>>
    /\ err' = NoError
    /\ UNCHANGED <<sessions, cur, mainVars>>

\* One pass of must_get's loop up to the entry of wait: get_cisco_ip_address
\* sends the show command, sleeps 2 s and calls wait("[\$#]").
MustGetIter ==
    /\ pc = "mg_loop"
    /\ WithinMaxtime(now, mg_started)
    /\ LET e == SleepEnd(now, GetIpSleepSecs)
       IN /\ now' = e
          /\ EnterWait(PromptRe, DefaultTimeoutSecs, e, "must_get")
    /\ reply' = <<ShowIpCmd>>
    /\ sent' = Append(sent, ShowIpCmd)
    /\ UNCHANGED <<maxtime, time_seen_username_prompt, mg_started, data, slice,
                   op_started, answer_at, username, userpass, script_pos,
                   prompt_at>>
    /\ sessions' = Sent(sessions, cur, reply')
    /\ UNCHANGED <<err, cur, mainVars>>

\* self.fatal("Failed to get IP address")
MustGetFail ==
    /\ pc = "mg_loop"
    /\ ~WithinMaxtime(now, mg_started)
    /\ pc' = "mg_failed"
    /\ reply' = <<>>
    /\ UNCHANGED <<now, maxtime, caller, time_started, time_pressed_enter,
                   time_seen_username_prompt, mg_started, wait_txt, timeout,
                   data, sent, slice, delivered, op_started, answer_at,
                   username, userpass, script_pos, prompt_at>>
    /\ err' = GetIpError(SessionName(sessions, cur), MgmtNic)
    /\ UNCHANGED <<sessions, cur, mainVars>>

\* ----------------------------------------------------- repeat_until
ProbeCmd == "sh run | inc MgmtEth"
RepeatDebug == "Check interface ready"
MgmtTxt == "interface MgmtEth"
MgmtRe == <<Lit(MgmtTxt)>>
\* The scripted target: the reply to the n-th probe is on the transport when
\* the read after it returns; only the answer_at-th reply holds the pattern.
ProbeReply(n, at) ==
    IF n = at THEN <<ProbeCmd, NL, "interface MgmtEth", NL, TokHash>>
    ELSE <<ProbeCmd, NL, TokHash>>

RepeatCall ==
    /\ pc = "idle"
    /\ pc' = "ru_loop"
    /\ \E n \in 0..MaxProbes : answer_at' = n
    /\ \E secs \in WaitTimeouts : timeout' = secs
    /\ wait_txt' = MgmtRe
    /\ time_started' = now
    /\ op_started' = now
    /\ caller' = "none"
    /\ data' = <<>>
    /\ reply' = <<>>
    /\ sent' = <<>>
    /\ UNCHANGED <<now, maxtime, time_pressed_enter, time_seen_username_prompt,
                   mg_started, slice, delivered, username, userpass,
                   script_pos, prompt_at>>
    /\ err' = NoError
    /\ UNCHANGED <<sessions, cur, mainVars>>

\* if re.search(match_txt, data, re.MULTILINE)
RepeatMatches(p, d) == ReSearch(p, d)

RepeatSendsWithEnter(txt) == <<"", txt>>
\* The lines one pass of repeat_until's loop writes before it reads.
RepeatSends(txt) == <<txt>>

\* One pass of repeat_until's while loop: send, read, match.
RepeatIter ==
    /\ pc = "ru_loop"
    /\ WithinMaxtime(now, time_started)
    /\ LET out == RepeatSends(ProbeCmd)
           log == sent \o out
       IN /\ reply' = out
          /\ sent' = log
          /\ \E o \in Arrives(cur, {ProbeReply(Len(log), answer_at)}, FALSE) :
             LET r == ReadData(now, timeout, o.d, o.eof)
             IN /\ now' = r.now
                /\ slice' = r.took
                /\ data' = r.data
                /\ pc' = IF r.eof THEN "eof"
                         ELSE IF RepeatMatches(wait_txt, r.data)
                         THEN "ru_returned" ELSE "ru_loop"
    /\ UNCHANGED <<maxtime, caller, time_started, time_pressed_enter,
                   time_seen_username_prompt, mg_started, wait_txt, timeout,
                   delivered, op_started, answer_at, username, userpass,
                   script_pos, prompt_at>>
    /\ err' = IF pc' = "eof"
              THEN EofError(SessionName(sessions, cur), RepeatDebug)
              ELSE err
    /\ sessions' = Passed(sessions, cur, reply', pc' = "eof")
    /\ UNCHANGED <<cur, mainVars>>

RepeatTimeout ==
    /\ pc = "ru_loop"
    /\ ~WithinMaxtime(now, time_started)
    /\ pc' = "ru_timed_out"
    /\ reply' = <<>>
    /\ UNCHANGED <<now, maxtime, caller, time_started, time_pressed_enter,
                   time_seen_username_prompt, mg_started, wait_txt, timeout,
                   data, sent, slice, delivered, op_started, answer_at,
                   username, userpass, script_pos, prompt_at>>
    /\ err' = RepeatError(SessionName(sessions, cur), RepeatDebug, ProbeCmd, MgmtTxt)
    /\ UNCHANGED <<sessions, cur, mainVars>>

\* ------------------------------------------------- the specification
\* The commands of -cmds named in the file's usage text.
SocatCmd == "socat TCP:localhost:65000 -,raw,echo=0,escape=0x1d"
TelnetCmd == "telnet localhost 15199"
\* main has run pre_node, which built the node with a session per command,
\* and is in run_node.
InRunNode(cmds) ==
    /\ opts = [clean |-> FALSE, cmds |-> cmds]
    /\ sessions = SpawnAll(<<>>, PortNames(cmds))
    /\ cur = TtyXr + 1
    /\ mpc = "run_node"
    /\ hooks = <<"pre_node", "run_node">>
    /\ err = NoError
    /\ loc = <<>>
    /\ env = <<>>
    /\ issued = <<>>

Init ==
    /\ InRunNode(<<SocatCmd>>)
    /\ now = Epoch
    /\ maxtime = WaitMaxtime
    /\ pc = "idle"
    /\ caller = "none"
    /\ time_started = 0
    /\ time_pressed_enter = 0
    /\ time_seen_username_prompt = 0
    /\ mg_started = 0
    /\ wait_txt = <<>>
    /\ timeout = DefaultTimeoutSecs
    /\ data = <<>>
    /\ reply = <<>>
    /\ sent = <<>>
    /\ slice = 0
    /\ delivered = <<>>
    /\ op_started = Epoch
    /\ answer_at = 0
    /\ username = "vagrant"
    /\ userpass = "vagrant"
    /\ script_pos = 0
    /\ prompt_at = 0

Next ==
    \/ WaitCall
    \/ WaitIter
    \/ WaitTimeout
    \/ MustGetCall
    \/ MustGetIter
    \/ MustGetFail
    \/ RepeatCall
    \/ RepeatIter
    \/ RepeatTimeout

Spec == Init /\ [][Next]_vars /\ WF_vars(Next)


\* ---------------------------------------------------- wait_xr_login
\* Lines the XR console prints, as tokens.
LnBanner == <<"Press RETURN to get started", ".">>
LnRootUser == <<"Enter root-system username:">>
LnSecret == <<"Enter secret", ":">>
LnAgain == <<"Enter secret", " again", ":">>
LnUsername == <<"Username:">>
LnPassword == <<"Password:">>
LnConfig == <<"RP", "/0/RP0", "/CPU", "0:", "ios", "(", "config", ")", TokHash>>
LnUncommitted == <<"Uncommitted changes found", ", commit them before exiting(yes/no/cancel)? [cancel]:">>
LnIos == <<"ios", TokHash>>
LnShell == <<"RP", "/0/RP0", "/CPU", "0:", "ios", TokHash>>
LnNoise == <<"ios con0/RP0/CPU0 is now available">>
LnEmpty == <<>>
KnownPrompts == {LnBanner, LnRootUser, LnSecret, LnAgain, LnUsername,
                 LnPassword, LnConfig, LnUncommitted, LnIos, LnShell}
LoginLines == KnownPrompts \cup {LnNoise, LnEmpty}

\* The lines joined by line terminators: the data whose split gives them back.
RECURSIVE JoinLines(_)
JoinLines(ls) ==
    IF Len(ls) = 1 THEN ls[1]
    ELSE ls[1] \o <<NL>> \o JoinLines(Tail(ls))

\* Lines that may stand before the last line of a read: boot noise, and the
\* banner and a prompt printed again.
StaleLines == {LnNoise, LnBanner, LnUsername}
\* The lines of one read: one line, a prompt and its line terminator, or a
\* stale line and then a line.
ReadShapes ==
    {<<l>> : l \in LoginLines}
        \cup {<<l, LnEmpty>> : l \in KnownPrompts}
        \cup {<<st, l>> : st \in StaleLines, l \in LoginLines}
\* What one read of the login loop can find on the transport.
LoginReads == {JoinLines(ls) : ls \in ReadShapes}

\* The prompt rules of wait_xr_login, in the order of the code.
BannerRe == <<Lit("Press RETURN to get started")>>
RootUserRe == <<Lit("Enter root-system username:")>>
SecretRe == <<Lit("Enter secret"), Lit(":")>>
AgainRe == <<Lit("Enter secret"), Lit(" again")>>
UsernameRe == <<Lit("Username:")>>
PasswordRe == <<Lit("Password:")>>
ConfigRe == <<Lit("ios"), AnyTok, Lit("config"), Star, Lit(TokHash)>>
UncommittedRe == <<Lit("Uncommitted changes found")>>
IosRe == <<Lit("ios"), Lit(TokHash)>>
RpRe == <<Lit("RP"), Star, Lit("/CPU"), Star, Lit(TokHash)>>
LoginRules ==
    << [re |-> BannerRe, act |-> "enter"],
       [re |-> RootUserRe, act |-> "rootuser"],
       [re |-> SecretRe, act |-> "pass"],
       [re |-> AgainRe, act |-> "pass"],
       [re |-> UsernameRe, act |-> "username"],
       [re |-> PasswordRe, act |-> "pass"],
       [re |-> ConfigRe, act |-> "exit"],
       [re |-> UncommittedRe, act |-> "no"],
       [re |-> IosRe, act |-> "return"],
       [re |-> RpRe, act |-> "return"] >>

\* Which rules' expressions are found in a text, and the lines of a read:
\* re.search and string.split over everything the loop can read.
RuleHits == [d \in LoginReads |->
                {i \in 1..Len(LoginRules) : ReSearch(LoginRules[i].re, d)}]
LinesOf == [d \in LoginReads |-> SplitLines(d)]

IsNonEmpty(lines) == \E i \in 1..Len(lines) : lines[i] # <<>>

LastLineFirstNonEmpty(lines) ==
    IF IsNonEmpty(lines)
    THEN lines[CHOOSE i \in 1..Len(lines) :
                   lines[i] # <<>> /\ \A j \in 1..(i - 1) : lines[j] = <<>>]
    ELSE lines[1]
\* for data in reversed(lines): if data != "": break
\* leaves the last non-empty line in data, or the first line (empty) if none.
LastLine(lines) ==
    IF IsNonEmpty(lines)
    THEN lines[CHOOSE i \in 1..Len(lines) :
                   lines[i] # <<>> /\ \A j \in (i + 1)..Len(lines) : lines[j] = <<>>]
    ELSE lines[1]

\* The "too soon" test with the 10 s of the nudge of wait_for_text.
UsernameTooSoonLong(t, seen) == seen # 0 /\ t - seen < Secs(WaitNudgeSecs)
\* if time.time() - time_seen_username_prompt < 5 (and the time is set)
UsernameTooSoon(t, seen) == seen # 0 /\ t - seen < Secs(UsernameRepeatSecs)

LoginNudgeDueLate(t, pressed) == t - pressed > Secs(WaitNudgeSecs)
\* if (time.time() - time_pressed_enter) > 5
LoginNudgeDue(t, pressed) == t - pressed > Secs(LoginNudgeSecs)

\* What a rule does when it is the one that decides the pass.
RuleAnswer(act, t, seen) ==
    CASE act = "enter" -> [sends |-> <<"">>, how |-> "continue", seen |-> seen]
      [] act = "rootuser" -> [sends |-> <<username>>, how |-> "continue", seen |-> seen]
      [] act = "pass" -> [sends |-> <<userpass>>, how |-> "continue", seen |-> seen]
      [] act = "exit" -> [sends |-> <<"exit">>, how |-> "continue", seen |-> seen]
      [] act = "no" -> [sends |-> <<"no">>, how |-> "continue", seen |-> seen]
      [] act = "return" -> [sends |-> <<>>, how |-> "return", seen |-> seen]
      [] act = "username" -> [sends |-> <<username>>, how |-> "username", seen |-> t]
      [] OTHER -> [sends |-> <<>>, how |-> "none", seen |-> seen]
\* The chain in which the last rule that matches decides.
RespondLastHit(i, line, t, seen) ==
    LET hits == {j \in RuleHits[line] : j >= i}
    IN IF hits = {} THEN RuleAnswer("none", t, seen)
       ELSE RuleAnswer(LoginRules[CHOOSE j \in hits : \A k \in hits : k <= j].act,
                       t, seen)
\* The chain of a login that remembers whether the username was sent: the
\* password and the shell prompt count only after it.
RespondAfterUsername(i, line, t, seen) ==
    LET hits == {j \in RuleHits[line] : j >= i}
        act == IF hits = {} THEN "none"
               ELSE LoginRules[CHOOSE j \in hits : \A k \in hits : j <= k].act
    IN IF act \in {"pass", "return"} /\ seen = 0
       THEN RuleAnswer("none", t, seen)
       ELSE RuleAnswer(act, t, seen)
\* The chain of if-blocks from rule i on, applied to `line` at clock t:
\* what is sent, whether the loop continues, returns or falls out of the
\* chain ("none"), and the new time_seen_username_prompt.
RECURSIVE Respond(_, _, _, _)
Respond(i, line, t, seen) ==
    IF i > Len(LoginRules)
    THEN [sends |-> <<>>, how |-> "none", seen |-> seen]
    ELSE IF i \notin RuleHits[line]
    THEN Respond(i + 1, line, t, seen)
    ELSE CASE LoginRules[i].act = "enter" ->
                 [sends |-> <<"">>, how |-> "continue", seen |-> seen]
           [] LoginRules[i].act = "rootuser" ->
                 [sends |-> <<username>>, how |-> "continue", seen |-> seen]
           [] LoginRules[i].act = "pass" ->
                 [sends |-> <<userpass>>, how |-> "continue", seen |-> seen]
           [] LoginRules[i].act = "exit" ->
                 [sends |-> <<"exit">>, how |-> "continue", seen |-> seen]
           [] LoginRules[i].act = "no" ->
                 [sends |-> <<"no">>, how |-> "continue", seen |-> seen]
           [] LoginRules[i].act = "return" ->
                 [sends |-> <<>>, how |-> "return", seen |-> seen]
           [] LoginRules[i].act = "username" ->
                 IF UsernameTooSoon(t, seen)
                 THEN LET rest == Respond(i + 1, line, t, seen)
                      IN [rest EXCEPT !.sends = <<"">> \o rest.sends]
                 ELSE [sends |-> <<username>>, how |-> "username", seen |-> t]

LoginInputWholeRead(d) == d
\* The text the prompt rules are tested against: the last non-empty line of
\* the data just read.
LoginInput(d) == LastLine(LinesOf[d])

\* The scripted target of the login scenario: what it prints, each line in
\* reply to the previous send.
LoginScript == <<LnBanner, LnRootUser, LnSecret, LnAgain, LnShell>>
\* Does a read continue the script after k steps: its last non-empty line is
\* step k+1 and any other line is boot noise or empty.
FollowsScript(k, d) ==
    /\ LET lines == LinesOf[d]
       IN /\ IsNonEmpty(lines)
          /\ \E i \in 1..Len(lines) :
                /\ lines[i] = LoginScript[k + 1]
                /\ \A j \in (i + 1)..Len(lines) : lines[j] = <<>>
                /\ \A j \in 1..(i - 1) : lines[j] \in {LnNoise, LnEmpty}

\* Seconds before the read returned at which a username prompt was printed.
PromptAges == {0, 4}
Credentials == {[login |-> "vagrant", password |-> "vagrant"],
                [login |-> "root", password |-> "lab"]}

LoginCall ==
    /\ pc = "idle"
    /\ mpc = "run_node"
    /\ Len(sessions) > TtyXr
    /\ sessions[TtyXr + 1].unread = <<>>
    /\ cur' = TtyXr + 1
    /\ pc' = "login_loop"
    /\ \E c \in Credentials :
          /\ username' = c.login
          /\ userpass' = c.password
    /\ time_seen_username_prompt' = 0
    /\ time_started' = now
    /\ time_pressed_enter' = 0
    /\ op_started' = now
    /\ script_pos' = 0
    /\ prompt_at' = 0
    /\ data' = <<>>
    /\ reply' = <<>>
    /\ sent' = <<>>
    /\ UNCHANGED <<now, maxtime, caller, mg_started, wait_txt, timeout, slice,
                   delivered, answer_at>>
    /\ err' = NoError
    /\ UNCHANGED <<sessions, mainVars>>

\* Per read: the text the rules see, whether any line is non-empty, and the
\* script steps the read continues.
InputOf == [d \in LoginReads |-> LoginInput(d)]
HasOutput == [d \in LoginReads |-> IsNonEmpty(LinesOf[d])]
ScriptSteps == [d \in LoginReads |->
                   {k \in 0..(Len(LoginScript) - 1) : FollowsScript(k, d)}]

\* What read_data can come back with in the login loop.
LoginOutcomes ==
    {[eof |-> FALSE, d |-> d] : d \in LoginReads} \cup {[eof |-> TRUE, d |-> <<>>]}
\* The same on the session of the login: a child that has gone prints nothing.
LoginArrives ==
    IF sessions[Target(cur)].eof THEN {[eof |-> TRUE, d |-> <<>>]} ELSE LoginOutcomes
LoginDebug == "Keep waiting for XR login prompt"

\* Does the line ask for a user name (either prompt)?
AsksUsername(line) == RuleHits[line] \cap {2, 5} # {}

\* One pass of wait_xr_login's while loop.  The transcript `sent` is kept
\* while the target follows LoginScript.
LoginIter ==
    /\ pc = "login_loop"
    /\ WithinMaxtime(now, time_started)
    /\ \E o \in LoginArrives :
       LET r == ReadData(now, LoginReadSecs, o.d, o.eof)
       IN /\ slice' = r.took
          /\ data' = r.data
          /\ IF r.eof
             THEN /\ pc' = "eof"
                  /\ now' = r.now
                  /\ reply' = <<>>
                  /\ script_pos' = -1
                  /\ sent' = <<>>
                  /\ UNCHANGED <<time_pressed_enter, time_seen_username_prompt,
                                 prompt_at>>
             ELSE LET line == InputOf[r.data]
                      pressed == IF HasOutput[r.data]
                                 THEN r.now ELSE time_pressed_enter
                      ans == Respond(1, line, r.now, time_seen_username_prompt)
                      nudge == ans.how = "none" /\ LoginNudgeDue(r.now, pressed)
                      out == IF nudge THEN ans.sends \o <<"">> ELSE ans.sends
                      pos == IF script_pos \in ScriptSteps[r.data]
                             THEN script_pos + 1 ELSE -1
                  IN /\ pc' = IF ans.how = "return"
                              THEN "login_returned" ELSE "login_loop"
                     /\ now' = IF ans.how = "username"
                               THEN SleepEnd(r.now, UsernameSleepSecs) ELSE r.now
                     /\ reply' = out
                     /\ time_pressed_enter' = IF nudge THEN r.now ELSE pressed
                     /\ time_seen_username_prompt' = ans.seen
                     /\ script_pos' = pos
                     /\ sent' = IF pos >= 0 THEN sent \o out ELSE <<>>
                     /\ IF AsksUsername(line)
                        THEN \E ago \in PromptAges : prompt_at' = r.now - Secs(ago)
                        ELSE prompt_at' = 0
    /\ UNCHANGED <<maxtime, caller, time_started, mg_started, wait_txt,
                   timeout, delivered, op_started, answer_at, username,
                   userpass>>
    /\ err' = IF pc' = "eof"
              THEN EofError(SessionName(sessions, cur), LoginDebug)
              ELSE err
    /\ sessions' = Passed(sessions, cur, reply', pc' = "eof")
    /\ UNCHANGED <<cur, mainVars>>

\* raise Exception("... timed out trying to login to XR")
LoginTimeout ==
    /\ pc = "login_loop"
    /\ ~WithinMaxtime(now, time_started)
    /\ pc' = "login_timed_out"
    /\ reply' = <<>>
    /\ UNCHANGED <<now, maxtime, caller, time_started, time_pressed_enter,
                   time_seen_username_prompt, mg_started, wait_txt, timeout,
                   data, sent, slice, delivered, op_started, answer_at,
                   username, userpass, script_pos, prompt_at>>
    /\ err' = LoginError(SessionName(sessions, cur))
    /\ UNCHANGED <<sessions, cur, mainVars>>

LoginInit ==
    /\ InRunNode(<<SocatCmd>>)
    /\ now = Epoch
    /\ maxtime = LoginMaxtime
    /\ pc = "idle"
    /\ caller = "none"
    /\ time_started = 0
    /\ time_pressed_enter = 0
    /\ time_seen_username_prompt = 0
    /\ mg_started = 0
    /\ wait_txt = <<>>
    /\ timeout = LoginReadSecs
    /\ data = <<>>
    /\ reply = <<>>
    /\ sent = <<>>
    /\ slice = 0
    /\ delivered = <<>>
    /\ op_started = Epoch
    /\ answer_at = 0
    /\ username = "vagrant"
    /\ userpass = "vagrant"
    /\ script_pos = 0
    /\ prompt_at = 0

LoginNext ==
    \/ LoginCall
    \/ LoginIter
    \/ LoginTimeout

SpecLogin == LoginInit /\ [][LoginNext]_vars /\ WF_vars(LoginNext)

\* ------------------------------ wait_xr_exec and wait_xr_conf_mode
\* What the console can print during one read of the prompt waits: nothing,
\* the exec prompt, the configuration prompt with or without the location
\* prefix.
PromptChunks ==
    {<<>>, LnShell, LnConfig, <<"ios", "(", TokConfig, ")", TokHash>>}

\* "RP.*/CPU.*config.#"
RpConfigRe == <<Lit("RP"), Star, Lit("/CPU"), Star, Lit(TokConfig), AnyTok, Lit(TokHash)>>
\* "ios.config.#"
IosConfigRe == <<Lit("ios"), AnyTok, Lit(TokConfig), AnyTok, Lit(TokHash)>>

PromptOps == {"wait_xr_exec", "wait_xr_conf_mode"}
\* The texts the operation sends before its loop.
PromptOpening(op) == IF op = "wait_xr_exec" THEN <<"">> ELSE <<"", "conf t">>
\* The re.search tests that end the loop.
PromptMatches(op, d) ==
    IF op = "wait_xr_exec" THEN ReSearch(IosRe, d)
    ELSE ReSearch(RpConfigRe, d) \/ ReSearch(IosConfigRe, d)
PromptDebug(op) ==
    IF op = "wait_xr_exec" THEN "Waiting on XR exec prompt"
    ELSE "Waiting on XR conf t prompt"

\* The lines one pass of the loop writes before it reads:
\* if (time.time() - time_pressed_enter) > 10: self.send(session, "")
PromptSends(t, pressed) ==
    IF t - pressed > Secs(PromptNudgeSecs) THEN <<"">> ELSE <<>>

\* wait_xr_exec(session) or wait_xr_conf_mode(session) called by a client.
PromptCall ==
    /\ pc = "idle"
    /\ pc' = "xp_loop"
    /\ \E op \in PromptOps :
          /\ caller' = op
          /\ reply' = PromptOpening(op)
          /\ sent' = PromptOpening(op)
          /\ sessions' = Sent(sessions, cur, PromptOpening(op))
    /\ time_started' = now
    /\ time_pressed_enter' = now
    /\ op_started' = now
    /\ data' = <<>>
    /\ err' = NoError
    /\ UNCHANGED <<now, maxtime, time_seen_username_prompt, mg_started,
                   wait_txt, timeout, slice, delivered, answer_at, username,
                   userpass, script_pos, prompt_at, cur, mainVars>>

\* One pass of the while loop: nudge if due, read, match.
PromptIter ==
    /\ pc = "xp_loop"
    /\ WithinMaxtime(now, time_started)
    /\ LET out == PromptSends(now, time_pressed_enter)
       IN /\ reply' = out
          /\ sent' = sent \o out
          /\ time_pressed_enter' = IF out # <<>> THEN now ELSE time_pressed_enter
          /\ \E o \in Arrives(cur, PromptChunks, TRUE) :
             LET r == ReadData(now, DefaultTimeoutSecs, o.d, o.eof)
             IN /\ now' = r.now
                /\ slice' = r.took
                /\ data' = r.data
                /\ pc' = IF r.eof THEN "eof"
                         ELSE IF PromptMatches(caller, r.data)
                         THEN "xp_returned" ELSE "xp_loop"
    /\ err' = IF pc' = "eof"
              THEN EofError(SessionName(sessions, cur), PromptDebug(caller))
              ELSE err
    /\ sessions' = Passed(sessions, cur, reply', pc' = "eof")
    /\ UNCHANGED <<maxtime, caller, time_started, time_seen_username_prompt,
                   mg_started, wait_txt, timeout, delivered, op_started,
                   answer_at, username, userpass, script_pos, prompt_at, cur,
                   mainVars>>

\* The loop condition fails: raise "timed out trying to get into ... mode".
PromptTimeout ==
    /\ pc = "xp_loop"
    /\ ~WithinMaxtime(now, time_started)
    /\ pc' = "xp_timed_out"
    /\ reply' = <<>>
    /\ err' = PromptError(SessionName(sessions, cur), caller)
    /\ UNCHANGED <<now, data, sessions, cur, engineVars, mainVars>>

\* ------------------------------------- operations on two sessions
\* The engine's locals before any operation is called, on a node whose
\* maxtime is mt seconds.
IdleEngine(mt) ==
    /\ now = Epoch
    /\ maxtime = mt
    /\ pc = "idle"
    /\ caller = "none"
    /\ time_started = 0
    /\ time_pressed_enter = 0
    /\ time_seen_username_prompt = 0
    /\ mg_started = 0
    /\ wait_txt = <<>>
    /\ timeout = DefaultTimeoutSecs
    /\ data = <<>>
    /\ reply = <<>>
    /\ sent = <<>>
    /\ slice = 0
    /\ delivered = <<>>
    /\ op_started = Epoch
    /\ answer_at = 0
    /\ username = "vagrant"
    /\ userpass = "vagrant"
    /\ script_pos = 0
    /\ prompt_at = 0

\* Within Horizon seconds of the start the client and the targets act
\* between operations.
Early == now - Epoch < Secs(Horizon)

\* The caller turns to another session of the node.
Use ==
    /\ pc = "idle"
    /\ Early
    /\ \E s \in 1..Len(sessions) : s # cur /\ cur' = s
    /\ UNCHANGED <<now, pc, data, reply, err, sessions, engineVars, mainVars>>

\* The target of session s prints a token while no operation is reading.
Emit ==
    /\ pc = "idle"
    /\ Early
    /\ \E s \in 1..Len(sessions), tok \in {TokHash} :
          /\ ~sessions[s].eof
          /\ ~sessions[s].closed
          /\ Len(sessions[s].unread) < MaxPending
          /\ sessions' = [sessions EXCEPT ![s].unread = Append(@, tok),
                                          ![s].drained = FALSE]
    /\ UNCHANGED <<now, pc, data, reply, err, cur, engineVars, mainVars>>

\* The child of session s goes away.
Hangup ==
    /\ pc \in {"idle", "ru_loop"}
    /\ pc = "idle" => Early
    /\ \E s \in 1..Len(sessions) :
          /\ ~sessions[s].eof
          /\ sessions' = [sessions EXCEPT ![s].eof = TRUE]
    /\ UNCHANGED <<now, pc, data, reply, err, cur, engineVars, mainVars>>

\* The text the caller sends.
SendTexts == {"ztp terminate noprompt"}

\* Node.send(session, send_txt) called by a client.
SendCall ==
    /\ pc = "idle"
    /\ Early
    /\ \E txt \in SendTexts :
          /\ reply' = <<txt>>
          /\ sessions' = [Sent(sessions, cur, <<txt>>) EXCEPT
                             ![cur].stale = Len(sessions[cur].unread),
                             ![cur].clean_send = sessions[cur].drained]
    /\ UNCHANGED <<now, pc, data, err, cur, engineVars, mainVars>>

\* Node.read_data(session, debug, timeout=1) called by a client, while the
\* clock is within Horizon seconds of the start.
ReadDataCall ==
    /\ pc = "idle"
    /\ Early
    /\ \E o \in Arrives(cur, Chunks(MaxPending, "none"), FALSE) :
       LET r == ReadData(now, DefaultTimeoutSecs, o.d, o.eof)
       IN /\ now' = r.now
          /\ data' = r.data
          /\ pc' = IF r.eof THEN "eof" ELSE "idle"
          /\ err' = IF r.eof THEN EofError(SessionName(sessions, cur), "") ELSE err
          /\ sessions' = Passed(sessions, cur, <<>>, r.eof)
    /\ reply' = <<>>
    /\ UNCHANGED <<cur, engineVars, mainVars>>

\* wait has returned to the caller, who goes on.
Return ==
    /\ pc = "wait_returned"
    /\ Early
    /\ pc' = "idle"
    /\ LeaveWait
    /\ reply' = <<>>
    /\ sent' = <<>>
    /\ answer_at' = 0
    /\ op_started' = Epoch
    /\ UNCHANGED <<now, maxtime, time_seen_username_prompt, mg_started,
                   username, userpass, script_pos, prompt_at,
                   err, sessions, cur, mainVars>>

SessionInit ==
    /\ IdleEngine(SessMaxtime)
    /\ InRunNode(<<SocatCmd, TelnetCmd>>)

SessionNext ==
    \/ Use
    \/ Emit
    \/ Hangup
    \/ SendCall
    \/ ReadDataCall
    \/ WaitCall
    \/ WaitIter
    \/ WaitTimeout
    \/ Return

SpecSession == SessionInit /\ [][SessionNext]_vars /\ WF_vars(SessionNext)

\* ------------------------------------- a console that goes away
ClosureInit ==
    /\ IdleEngine(ClosureMaxtime)
    /\ InRunNode(<<SocatCmd>>)

ClosureNext ==
    \/ Hangup
    \/ WaitCall
    \/ WaitIter
    \/ WaitTimeout
    \/ RepeatCall
    \/ RepeatIter
    \/ RepeatTimeout
    \/ PromptCall
    \/ PromptIter
    \/ PromptTimeout
    \/ LoginCall
    \/ LoginIter
    \/ LoginTimeout

SpecClosure == ClosureInit /\ [][ClosureNext]_vars /\ WF_vars(ClosureNext)

\* ---------------------------------------------- IosxrPexpect.main
\* The i-th command of a -cmds list.
Cmd(i) == IF i = 1 THEN SocatCmd ELSE "telnet localhost " \o ToString(15197 + i)
\* The command lines: -clean or not, -cmds absent or with 1..MaxCmds
\* commands, in either order.
Options ==
    {[clean |-> c, cmds |-> m] :
        c \in BOOLEAN,
        m \in {None} \cup
              {[i \in 1..n |-> Cmd(IF rev THEN n + 1 - i ELSE i)] :
                  n \in 1..MaxCmds, rev \in BOOLEAN}}

\* An exception of the interpreter.
PyError(kind) == [kind |-> kind, session |-> <<>>, about |-> <<>>]

\* pexpect's spawn.close(force=True): closes the descriptor unless the
\* transport is closed already.
PexpectClose(tr) ==
    IF tr.closed THEN tr ELSE [tr EXCEPT !.closed = TRUE, !.closes = @ + 1]

\* Node.close(): for each session in order, port_name = self.ttys[index],
\* then session.pexpect.close(force=True); self.ttys[index] raises
\* IndexError beyond the last tty name.
NodeClosed(ss) ==
    [i \in 1..Len(ss) |-> IF i <= Len(Ttys) THEN PexpectClose(ss[i]) ELSE ss[i]]

\* if self.opts.clean: router.clean_node().  clean_node builds a Node with
\* keywords Node.__init__ does not take.
CleanNode ==
    /\ mpc = "main"
    /\ opts.clean # FALSE
    /\ hooks' = Append(hooks, "clean_node")
    /\ err' = PyError("TypeError: __init__() got an unexpected keyword argument 'b2b'")
    /\ mpc' = "aborted"
    /\ UNCHANGED <<now, pc, data, reply, sessions, cur, opts, engineVars,
                   scriptVars>>

\* router.pre_node(): self.xr = Node(iosxr_pexpect, self.name), whose
\* constructor spawns the sessions.
PreNode ==
    /\ mpc = "main"
    /\ opts.clean = FALSE
    /\ hooks' = Append(hooks, "pre_node")
    /\ sessions' = SpawnAll(<<>>, PortNames(opts.cmds))
    /\ mpc' = "pre_done"
    /\ UNCHANGED <<now, pc, data, reply, err, cur, opts, engineVars,
                   scriptVars>>

\* router.run_node() begins: open_sessions calls wait_xr_login, whose
\* self.sessions[self.tty.xr] raises IndexError on a node without sessions.
RunNode ==
    /\ mpc = "pre_done"
    /\ hooks' = Append(hooks, "run_node")
    /\ IF Len(sessions) > TtyXr
       THEN mpc' = "run_node" /\ err' = err
       ELSE /\ mpc' = "aborted"
            /\ err' = PyError("IndexError: list index out of range")
    /\ UNCHANGED <<now, pc, data, reply, sessions, cur, opts, engineVars,
                   scriptVars>>

\* The rest of run_node after the login: setup_networking and get_mgmt_ip
\* go through, or one of their waits raises.
RunRest ==
    /\ mpc = "run_node"
    /\ pc = "login_returned"
    /\ \E e \in {NoError,
                  EofError(SessionName(sessions, cur), ""),
                  WaitError(SessionName(sessions, cur), "", TokConfig),
                  RepeatError(SessionName(sessions, cur), RepeatDebug, ProbeCmd, MgmtTxt),
                  GetIpError(SessionName(sessions, cur), MgmtNic)} :
          /\ err' = e
          /\ mpc' = IF e = NoError THEN "run_done" ELSE "aborted"
    /\ pc' = "idle"
    /\ reply' = <<>>
    /\ UNCHANGED <<now, data, sessions, cur, opts, hooks, engineVars,
                   scriptVars>>

\* wait_xr_login raised: nothing in run_node or main catches it.
RunFails ==
    /\ mpc = "run_node"
    /\ pc \in {"eof", "login_timed_out"}
    /\ mpc' = "aborted"
    /\ UNCHANGED <<now, pc, data, reply, err, sessions, cur, opts, hooks,
                   engineVars, scriptVars>>

\* A client closes one session itself before the node is closed.
SessionClose ==
    /\ mpc = "run_done"
    /\ \E s \in 1..Len(sessions) :
          /\ ~sessions[s].closed
          /\ sessions' = [sessions EXCEPT ![s] = PexpectClose(@)]
    /\ UNCHANGED <<now, pc, data, reply, err, cur, mainVars, engineVars>>

\* router.post_node(): self.xr.close()
PostNode ==
    /\ mpc = "run_done"
    /\ hooks' = Append(hooks, "post_node")
    /\ sessions' = NodeClosed(sessions)
    /\ IF Len(sessions) > Len(Ttys)
       THEN /\ mpc' = "aborted"
            /\ err' = PyError("IndexError: list index out of range")
       ELSE mpc' = "done" /\ err' = err
    /\ UNCHANGED <<now, pc, data, reply, cur, opts, engineVars, scriptVars>>

MainInit ==
    /\ IdleEngine(MainMaxtime)
    /\ opts \in Options
    /\ sessions = <<>>
    /\ cur = TtyXr + 1
    /\ mpc = "main"
    /\ hooks = <<>>
    /\ err = NoError
    /\ loc = <<>>
    /\ env = <<>>
    /\ issued = <<>>

MainNext ==
    \/ CleanNode
    \/ PreNode
    \/ RunNode
    \/ LoginCall
    \/ LoginIter
    \/ LoginTimeout
    \/ RunRest
    \/ RunFails
    \/ SessionClose
    \/ PostNode

SpecMain == MainInit /\ [][MainNext]_vars /\ WF_vars(MainNext)

\* -------------------------------------- XrLogin.setup_networking
K9Cmd == "bash -c rpm -qa | grep k9sec"
MgblCmd == "bash -c rpm -qa | grep mgbl"
\* What the target prints in answer to a line: the matching package, if the
\* image has it, and the prompt.
Response(cmd, image) ==
    (IF cmd = K9Cmd /\ image.k9 THEN <<"-k9sec", NL>>
     ELSE IF cmd = MgblCmd /\ image.mgbl THEN <<"-mgbl", NL>>
     ELSE <<>>) \o <<TokHash>>

\* A setup that configures ssh whatever the image.
ConfigSendsAlwaysSsh(k9, full) ==
    <<"conf t", "ssh server v2", "ssh server vrf default">>
    \o (IF full THEN <<"grpc", " port 57777">> ELSE <<>>)
    \o <<"commit", "end", "crypto key generate rsa", "">>

\* The lines setup_networking sends once both flags are set, the probes of
\* its repeat_until calls once each.
ConfigSends(k9, full) ==
    <<ProbeCmd, "", "conf t",
      "telnet vrf default ipv4 server max-servers 10",
      "interface MgmtEth0/RP0/CPU0/0", " ipv4 address dhcp", " no shutdown",
      "tpa address-family ipv4 update-source MgmtEth0/RP0/CPU0/0",
      "router static address-family ipv4 unicast 0.0.0.0/0 MgmtEth0/RP0/CPU0/0 10.0.2.2">>
    \o (IF k9 THEN <<"ssh server v2", "ssh server vrf default">> ELSE <<>>)
    \o (IF full THEN <<"grpc", " port 57777">> ELSE <<>>)
    \o <<"commit", "end", "sh ipv4 int brief",
          "bash -c echo '####Added by iosxr_setup to give vagrant passwordless access' >> /etc/sudoers",
          "bash -c echo '%sudo ALL=(ALL) NOPASSWD: ALL' >> /etc/sudoers",
          "bash -c echo 'vagrant ALL=(ALL) NOPASSWD: ALL' >> /etc/sudoers",
          "bash -c [ -d ~vagrant/.ssh ] || mkdir ~vagrant/.ssh",
          "bash -c chmod 0700 ~vagrant/.ssh",
          "bash -c echo 'ssh-rsa ... vagrant insecure public key' > ~vagrant/.ssh/authorized_keys",
          "bash -c chmod 0600 ~vagrant/.ssh/authorized_keys",
          "bash -c chown -R vagrant:vagrant ~vagrant/.ssh/",
          "bash -c groupadd app_host",
          "bash -c usermod -a -G app_host vagrant",
          "bash -c mkdir -p /misc/app_host/scratch",
          "bash -c chgrp -R app_host /misc/app_host/scratch",
          "bash -c chmod 777 /misc/app_host/scratch",
          "run echo '# Cisco OpenDNS IPv4 nameservers' > /etc/resolv.conf",
          "run echo 'nameserver 208.67.222.222' >> /etc/resolv.conf",
          "run echo 'nameserver 208.67.220.220' >> /etc/resolv.conf",
          "bash -c service sshd_operns start",
          "bash -c service sshd_operns status",
          "bash -c chkconfig --add sshd_operns">>
    \o (IF k9 THEN <<"crypto key generate rsa", "">> ELSE <<>>)

\* The state of the engine and of main that the setup script leaves alone.
nodeVars == <<pc, maxtime, caller, time_seen_username_prompt, mg_started,
              wait_txt, timeout, slice, delivered, op_started, answer_at,
              username, userpass, script_pos, prompt_at, cur, opts, hooks,
              issued>>

\* setup_networking up to its first wait: send "ztp terminate noprompt",
\* send the k9sec probe, sleep two seconds.
SetupProbe ==
    /\ mpc = "setup_networking"
    /\ LET out == <<"ztp terminate noprompt", K9Cmd>>
       IN /\ sent' = out
          /\ reply' = out
          /\ env' = [env EXCEPT !.pending = Response(out[1], env) \o Response(out[2], env)]
          /\ sessions' = Sent(sessions, cur, out)
    /\ now' = SleepEnd(now, ProbeSleepSecs)
    /\ time_started' = now'
    /\ time_pressed_enter' = now'
    /\ mpc' = "k9_wait"
    /\ UNCHANGED <<data, err, loc, nodeVars>>

\* The target prints some of what it has to print.
TargetPrints ==
    /\ mpc \in {"k9_wait", "mgbl_wait"}
    /\ \E k \in 1..Len(env.pending) :
          /\ sessions' = [sessions EXCEPT
                ![cur].unread = @ \o SubSeq(env.pending, 1, k)]
          /\ env' = [env EXCEPT !.pending = SubSeq(@, k + 1, Len(@))]
    /\ UNCHANGED <<now, data, reply, sent, err, loc, mpc, time_started,
                   time_pressed_enter, nodeVars>>

\* One pass of the loop of xr1.wait("[\$#]") after a probe.  When the read
\* holds a prompt, wait returns it as `output`: the flag is set from it, and
\* after the first probe the second is sent, followed by its sleep.
SetupWaitIter ==
    /\ mpc \in {"k9_wait", "mgbl_wait"}
    /\ WithinMaxtime(now, time_started)
    /\ LET r == ReadData(now, DefaultTimeoutSecs, sessions[cur].unread, FALSE)
           found == WaitMatches(PromptRe, r.data)
           nudge == ~found /\ WaitNudgeDue(r.now, time_pressed_enter)
           out == IF found /\ mpc = "k9_wait" THEN <<MgblCmd>>
                  ELSE IF nudge THEN <<"">> ELSE <<>>
       IN /\ data' = r.data
          /\ reply' = out
          /\ sent' = sent \o out
          /\ sessions' = Passed(sessions, cur, out, FALSE)
          /\ env' = IF out = <<>> THEN env
                    ELSE [env EXCEPT !.pending = @ \o Response(out[1], env)]
          /\ IF found
             THEN /\ loc' = IF mpc = "k9_wait"
                            THEN [loc EXCEPT !.k9 = ReSearch(<<Lit("-k9sec")>>, r.data)]
                            ELSE [loc EXCEPT !.full = ReSearch(<<Lit("-mgbl")>>, r.data)]
                  /\ mpc' = IF mpc = "k9_wait" THEN "mgbl_wait" ELSE "configure"
                  /\ now' = IF mpc = "k9_wait"
                            THEN SleepEnd(r.now, ProbeSleepSecs) ELSE r.now
                  /\ time_started' = now'
                  /\ time_pressed_enter' = now'
             ELSE /\ now' = r.now
                  /\ time_pressed_enter' = IF nudge THEN r.now ELSE time_pressed_enter
                  /\ UNCHANGED <<loc, mpc, time_started>>
    /\ UNCHANGED <<err, nodeVars>>

\* The wait after a probe runs out of time and raises.
SetupWaitTimeout ==
    /\ mpc \in {"k9_wait", "mgbl_wait"}
    /\ ~WithinMaxtime(now, time_started)
    /\ mpc' = "failed"
    /\ err' = WaitError(SessionName(sessions, cur), "", "[\\$#]")
    /\ reply' = <<>>
    /\ UNCHANGED <<now, data, sent, sessions, env, loc, time_started,
                   time_pressed_enter, nodeVars>>

\* The rest of setup_networking: it sends its lines in order, the ssh and
\* grpc lines according to the flags, until it is through or one of its
\* waits raises.
SetupConfigure ==
    /\ mpc = "configure"
    /\ LET all == ConfigSends(loc.k9, loc.full)
       IN \E n \in 0..Len(all) :
             /\ sent' = sent \o SubSeq(all, 1, n)
             /\ reply' = SubSeq(all, 1, n)
             /\ mpc' = IF n = Len(all) THEN "done" ELSE "failed"
             /\ err' = IF n = Len(all) THEN err
                       ELSE WaitError(SessionName(sessions, cur), "", TokConfig)
    /\ UNCHANGED <<now, data, sessions, env, loc, time_started,
                   time_pressed_enter, nodeVars>>

SetupInit ==
    /\ IdleEngine(SetupMaxtime)
    /\ opts = [clean |-> FALSE, cmds |-> <<SocatCmd>>]
    /\ sessions = SpawnAll(<<>>, PortNames(opts.cmds))
    /\ cur = TtyXr + 1
    /\ mpc = "setup_networking"
    /\ hooks = <<"pre_node", "run_node">>
    /\ err = NoError
    /\ loc = [k9 |-> FALSE, full |-> FALSE]
    /\ \E k, m \in BOOLEAN : env = [k9 |-> k, mgbl |-> m, pending |-> <<>>]
    /\ issued = <<>>

SetupNext ==
    \/ SetupProbe
    \/ TargetPrints
    \/ SetupWaitIter
    \/ SetupWaitTimeout
    \/ SetupConfigure

SpecSetup == SetupInit /\ [][SetupNext]_vars /\ WF_vars(SetupNext)

\* ------------------------------------------------- iosxr_iso2vbox.py
\* The build script reads no clock: its loops count their own sleeps in
\* elapsed_time, which is not read after the loop and is kept here only
\* while the loop runs.  Its
\* state is the position of main (mpc), the parsed arguments (opts), the
\* pending exception (err), the functions main has entered (hooks), the
\* commands run (issued), the locals of the running function (loc) and the
\* VM (env).
idleVars == <<now, pc, data, reply, sessions, cur, engineVars>>

\* The exceptions of the script, with the function that raised them.
BuildError(kind, where) == [kind |-> kind, session |-> <<>>, about |-> <<where>>]

\* A listing that never names the VM.
ListedNever(e) == FALSE

\* A listing that names a VM that is still coming up.
ListedWhileStarting(e) == e.vm \in {"starting", "running", "stopping"}

\* 'VBoxManage list runningvms' names the VM.
ListedRunning(e) == e.vm \in {"running", "stopping"}

\* A loop that sleeps once more when TIMEOUT is reached.
PollAgainLate(elapsed_time) == elapsed_time <= TIMEOUT

\* `elif elapsed_time < TIMEOUT:` of the two polling loops.
PollAgain(elapsed_time) == elapsed_time < TIMEOUT

\* What VirtualBox does on its own: a started VM comes up, a VM that was
\* told to power off goes down.
VmMoves ==
    /\ mpc \notin {"done", "raised"}
    /\ env.vm \in {"starting", "stopping"}
    /\ env' = [env EXCEPT !.vm = IF @ = "starting" THEN "running" ELSE "off"]
    /\ UNCHANGED <<opts, mpc, err, hooks, issued, loc, idleVars>>

\* live_config_vbox_vm: start_process(['VBoxHeadless', '--startvm', ...]).
StartVm ==
    /\ mpc = "live_config_vbox_vm"
    /\ hooks' = Append(hooks, "live_config_vbox_vm")
    /\ issued' = Append(issued, "VBoxHeadless --startvm")
    /\ env' = [env EXCEPT !.vm = "starting"]
    /\ loc' = [loc EXCEPT !.elapsed_time = 0]
    /\ mpc' = "wait_running"
    /\ UNCHANGED <<opts, err, idleVars>>

\* live_config_vbox_vm: one pass of the loop that waits for the VM to be
\* listed as running.
StartPoll ==
    /\ mpc = "wait_running"
    /\ IF ListedRunning(env)
       THEN /\ mpc' = "configure_xr"
            /\ loc' = [loc EXCEPT !.elapsed_time = 0]
            /\ UNCHANGED <<err, issued>>
       ELSE IF PollAgain(loc.elapsed_time)
       THEN /\ loc' = [loc EXCEPT !.elapsed_time = @ + RETRY_INTERVAL]
            /\ UNCHANGED <<mpc, err, issued>>
       ELSE /\ issued' = Append(issued, "VBoxManage showvminfo")
            /\ err' = BuildError("AbortScriptException: VM still not running",
                                 "live_config_vbox_vm")
            /\ mpc' = "except"
            /\ UNCHANGED loc
    /\ UNCHANGED <<opts, hooks, env, idleVars>>

\* The calls of xr_cli_wait_for_output in configure_xr.
RetryCalls ==
    << [command |-> "sh run interface", pattern |-> "interface MgmtEth"],
       [command |-> "sh ipv4 int brief", pattern |-> "10.0.2.15"],
       [command |-> "bash -c service sshd_operns status", pattern |-> "is running..."],
       [command |-> "show ipv4 interface MgmtEth0/RP0/CPU0/0", pattern |-> "10.0.2.15"] >>

\* configure_xr outside xr_cli_wait_for_output: the expects before the
\* first call, between two calls and after the last.  Each of them may time
\* out or meet the end of the console's output.
ConfigureXr ==
    /\ \/ /\ mpc = "configure_xr"
          /\ loc.call = 0
       \/ /\ mpc = "returned"
    /\ \E o \in {"ok", "pexpect.TIMEOUT", "pexpect.EOF"} :
          IF o # "ok"
          THEN /\ err' = BuildError(o, "configure_xr")
               /\ mpc' = "except"
               /\ UNCHANGED <<loc, env>>
          ELSE IF loc.call < Len(RetryCalls)
          THEN /\ loc' = [loc EXCEPT !.call = @ + 1, !.tries = <<>>]
               /\ mpc' = "xr_cli_wait_for_output"
               /\ UNCHANGED <<err, env>>
          ELSE /\ env' = [env EXCEPT !.configured = TRUE]
               /\ loc' = [loc EXCEPT !.call = 0, !.tries = <<>>]
               /\ mpc' = IF opts.debug THEN "pause_to_debug" ELSE "cleanup_vmname"
               /\ UNCHANGED err
    /\ UNCHANGED <<opts, hooks, issued, idleVars>>

\* The message of xr_cli_wait_for_output's exception.
RetryException(c) ==
    BuildError("Exception: No '" \o c.pattern \o "' in '" \o c.command \o "'",
               "xr_cli_wait_for_output")

\* A try of xr_cli_wait_for_output that sleeps only after a timeout.
RetrySleptAfterTimeout(o) == IF o = "timeout" THEN RETRY_INTERVAL ELSE 0

\* The seconds xr_cli_wait_for_output sleeps after a try: the sleep is in
\* the try body, after the search that found nothing.
RetrySlept(o) == IF o = "nomatch" THEN RETRY_INTERVAL ELSE 0

\* xr_cli_wait_for_output: one pass of `for attempt in range(total)`, kept
\* in the list of tries of the call.  The command is sent; the prompt comes back with or without the pattern before
\* it, or expect times out, or the console's output ends.
RetryTry ==
    /\ mpc = "xr_cli_wait_for_output"
    /\ Len(loc.tries) < RetryTotal
    /\ \E o \in {"match", "nomatch", "timeout", "eof"} :
          /\ loc' = [loc EXCEPT !.tries =
                        Append(@, [outcome |-> o, slept |-> RetrySlept(o)])]
          /\ IF o = "match"
             THEN /\ mpc' = "returned"
                  /\ UNCHANGED err
             ELSE IF o = "eof"
             THEN /\ mpc' = "except"
                  /\ err' = BuildError("pexpect.EOF", "xr_cli_wait_for_output")
             ELSE UNCHANGED <<mpc, err>>
    /\ UNCHANGED <<opts, hooks, issued, env, idleVars>>

\* xr_cli_wait_for_output after the loop: `if not found_match: raise`.
RetryRaise ==
    /\ mpc = "xr_cli_wait_for_output"
    /\ Len(loc.tries) = RetryTotal
    /\ err' = RetryException(RetryCalls[loc.call])
    /\ mpc' = "except"
    /\ UNCHANGED <<opts, hooks, issued, loc, env, idleVars>>

\* pause_to_debug: raw_input returns when the user presses enter.
PauseToDebug ==
    /\ mpc = "pause_to_debug"
    /\ hooks' = Append(hooks, "pause_to_debug")
    /\ mpc' = IF loc.site = "main" THEN "finally" ELSE "cleanup_vmname"
    /\ UNCHANGED <<opts, err, issued, loc, env, idleVars>>

\* A cleanup that unregisters the VM whatever `delete` says.
DeletesAlways(l, e) == e.registered

\* cleanup_vmname: `if delete:` and the VM is in 'VBoxManage list vms'.
Deletes(l, e) == l.delete /\ e.registered

\* A main that loses the exception of its try block.
AfterFinallySwallows(e, o) == IF o.skip_test THEN "done" ELSE "test_main"

\* A main that tests whatever --skip_test says.
AfterFinallyTestsAlways(e, o) == IF e # NoError THEN "raised" ELSE "test_main"

\* main after the finally clause has run: the pending exception goes on;
\* without one, the tests run unless --skip_test was given.
AfterFinally(e, o) ==
    IF e # NoError THEN "raised"
    ELSE IF o.skip_test THEN "done" ELSE "test_main"

\* An exception leaves cleanup_vmname: into main's except clause when it
\* was called by live_config_vbox_vm, out of main when it was called by the
\* finally clause.
CleanupRaises(kind) ==
    /\ err' = BuildError(kind, "cleanup_vmname")
    /\ mpc' = IF loc.site = "main" THEN "raised" ELSE "except"

\* cleanup_vmname up to its loop: list the running VMs and power the VM off
\* if it is listed.  live_config_vbox_vm calls it with delete False, the
\* finally clause of main with delete True.
CleanupVmname ==
    /\ mpc \in {"cleanup_vmname", "finally"}
    /\ hooks' = Append(hooks, IF mpc = "finally" THEN "cleanup_vmname(delete=True)"
                              ELSE "cleanup_vmname")
    /\ LET l == [loc EXCEPT !.delete = (mpc = "finally"),
                            !.site = IF mpc = "finally" THEN "main" ELSE @,
                            !.elapsed_time = 0,
                            !.observed = ~ListedRunning(env)]
       IN /\ loc' = l
          /\ IF ~ListedRunning(env)
             THEN /\ mpc' = "cleanup_delete"
                  /\ UNCHANGED <<err, issued, env>>
             ELSE /\ issued' = Append(issued, "VBoxManage controlvm poweroff")
                  /\ \E ok \in BOOLEAN :
                        IF ok
                        THEN /\ env' = [env EXCEPT !.vm = "stopping"]
                             /\ mpc' = "cleanup_poll"
                             /\ UNCHANGED err
                        ELSE /\ err' = BuildError("AbortScriptException: Command failed",
                                                  "cleanup_vmname")
                             /\ mpc' = IF l.site = "main" THEN "raised" ELSE "except"
                             /\ UNCHANGED env
    /\ UNCHANGED <<opts, idleVars>>

\* cleanup_vmname: one pass of the loop that waits for the VM to leave the
\* list of running VMs.
CleanupPoll ==
    /\ mpc = "cleanup_poll"
    /\ IF ~ListedRunning(env)
       THEN /\ mpc' = "cleanup_delete"
            /\ loc' = [loc EXCEPT !.observed = TRUE, !.elapsed_time = 0]
            /\ UNCHANGED <<err, issued>>
       ELSE IF PollAgain(loc.elapsed_time)
       THEN /\ loc' = [loc EXCEPT !.elapsed_time = @ + RETRY_INTERVAL]
            /\ UNCHANGED <<mpc, err, issued>>
       ELSE /\ issued' = Append(issued, "VBoxManage showvminfo")
            /\ CleanupRaises("AbortScriptException: VM still not stopped")
            /\ UNCHANGED loc
    /\ UNCHANGED <<opts, hooks, env, idleVars>>

\* cleanup_vmname after the loop: `if delete:` unregister and delete the VM
\* if it is registered; then return to the caller.
CleanupDelete ==
    /\ mpc = "cleanup_delete"
    /\ LET back == IF loc.site # "main" THEN "export"
                   ELSE AfterFinally(err, opts)
       IN IF Deletes(loc, env)
          THEN /\ issued' = Append(issued, "VBoxManage unregistervm --delete")
               /\ \E ok \in BOOLEAN :
                     IF ok
                     THEN /\ env' = [env EXCEPT !.registered = FALSE]
                          /\ mpc' = back
                          /\ UNCHANGED err
                     ELSE /\ CleanupRaises("AbortScriptException: Command failed")
                          /\ UNCHANGED env
          ELSE /\ mpc' = back
               /\ UNCHANGED <<err, issued, env>>
    /\ UNCHANGED <<opts, hooks, loc, idleVars>>

\* live_config_vbox_vm after cleanup_vmname: both serial ports off, the
\* disk compacted.  run raises when a command fails.
Export ==
    /\ mpc = "export"
    /\ \E n \in 1..4 :
          LET cmds == <<"VBoxManage modifyvm --uart1 off",
                        "VBoxManage modifyvm --uart2 off",
                        "VBoxManage modifymedium --compact">>
          IN /\ issued' = issued \o SubSeq(cmds, 1, IF n = 4 THEN 3 ELSE n)
             /\ env' = [env EXCEPT !.uarts = IF n = 1 THEN 2 ELSE IF n = 2 THEN 1 ELSE 0]
             /\ IF n = 4
                THEN /\ mpc' = "vbox_to_vagrant"
                     /\ UNCHANGED err
                ELSE /\ mpc' = "except"
                     /\ err' = BuildError("AbortScriptException: Command failed",
                                          "live_config_vbox_vm")
    /\ UNCHANGED <<opts, hooks, loc, idleVars>>

\* vbox_to_vagrant, and vbox_to_ova when --create_ova was given.
Package ==
    /\ mpc \in {"vbox_to_vagrant", "vbox_to_ova"}
    /\ hooks' = Append(hooks, mpc)
    /\ issued' = Append(issued, IF mpc = "vbox_to_vagrant" THEN "vagrant package"
                                ELSE "VBoxManage export")
    /\ \E ok \in BOOLEAN :
          IF ok
          THEN /\ env' = IF mpc = "vbox_to_vagrant" THEN [env EXCEPT !.box = TRUE]
                         ELSE [env EXCEPT !.ova = TRUE]
               /\ mpc' = IF mpc = "vbox_to_vagrant" /\ opts.create_ova
                         THEN "vbox_to_ova" ELSE "finally"
               /\ UNCHANGED err
          ELSE /\ err' = BuildError("AbortScriptException: Command failed", mpc)
               /\ mpc' = "except"
               /\ UNCHANGED env
    /\ UNCHANGED <<opts, loc, idleVars>>

\* main's `except:` clause: pause if --debug was given, then re-raise.
Except ==
    /\ mpc = "except"
    /\ loc' = [loc EXCEPT !.site = "main", !.caught = err, !.call = 0,
                          !.tries = <<>>]
    /\ mpc' = IF opts.debug THEN "pause_to_debug" ELSE "finally"
    /\ UNCHANGED <<opts, err, hooks, issued, env, idleVars>>

\* main after the try statement: `if not args.skip_test: test_main(...)`.
TestMain ==
    /\ mpc = "test_main"
    /\ hooks' = Append(hooks, "test_main")
    /\ mpc' = "done"
    /\ UNCHANGED <<opts, err, issued, loc, env, idleVars>>

\* main when define_vbox_vm has returned: the VM is registered, with its
\* two serial ports, and is not running.
BuildInit ==
    /\ IdleEngine(MainMaxtime)
    /\ sessions = <<>>
    /\ cur = TtyXr + 1
    /\ \E d, t, o \in BOOLEAN :
          opts = [debug |-> d, skip_test |-> t, create_ova |-> o]
    /\ mpc = "live_config_vbox_vm"
    /\ hooks = <<>>
    /\ err = NoError
    /\ issued = <<>>
    /\ loc = [elapsed_time |-> 0, call |-> 0, tries |-> <<>>, delete |-> FALSE,
              site |-> "live_config_vbox_vm", observed |-> FALSE,
              caught |-> NoError]
    /\ env = [vm |-> "off", registered |-> TRUE, uarts |-> 2,
              configured |-> FALSE, box |-> FALSE, ova |-> FALSE]

BuildNext ==
    \/ VmMoves
    \/ StartVm
    \/ StartPoll
    \/ ConfigureXr
    \/ RetryTry
    \/ RetryRaise
    \/ PauseToDebug
    \/ CleanupVmname
    \/ CleanupPoll
    \/ CleanupDelete
    \/ Export
    \/ Package
    \/ Except
    \/ TestMain

SpecBuild == BuildInit /\ [][BuildNext]_vars /\ WF_vars(BuildNext)

\* ------------------------------------------------- iosxe_iso2vbox.py
\* run of iosxe_iso2vbox.py ends the script with sys.exit when a command
\* fails.
XeExit == BuildError("SystemExit: Quitting due to run command error", "run")

\* main from start_process on: one pass of the loop that waits for
\* showvminfo to say 'running (since'; it sleeps five seconds per pass and
\* has no timeout.
XeStart ==
    /\ mpc \in {"xe_start", "xe_wait_running"}
    /\ IF mpc = "xe_start"
       THEN /\ issued' = Append(issued, "VBoxHeadless --startvm")
            /\ env' = [env EXCEPT !.vm = "starting"]
            /\ mpc' = "xe_wait_running"
       ELSE /\ env.vm = "running"
            /\ mpc' = "xe_configure"
            /\ UNCHANGED <<issued, env>>
    /\ UNCHANGED <<opts, err, hooks, loc, idleVars>>

\* main: with --debug pause_to_debug; otherwise configure_wait_only,
\* configure_c8000v or configure_xe, whose pexpect TIMEOUT is caught.
XeConfigure ==
    /\ mpc = "xe_configure"
    /\ IF opts.debug
       THEN /\ hooks' = Append(hooks, "pause_to_debug")
            /\ mpc' = "xe_poweroff"
            /\ UNCHANGED <<err, loc, env>>
       ELSE /\ hooks' = Append(hooks, "configure_xe")
            /\ \E o \in {"ok", "pexpect.TIMEOUT", "pexpect.EOF"} :
                  /\ env' = [env EXCEPT !.configured = (o = "ok")]
                  /\ loc' = [loc EXCEPT !.caught =
                                IF o = "pexpect.TIMEOUT"
                                THEN BuildError(o, "configure_xe") ELSE @]
                  /\ err' = IF o = "pexpect.EOF"
                            THEN BuildError(o, "configure_xe") ELSE err
                  /\ mpc' = IF o = "ok" THEN "xe_poweroff"
                            ELSE IF o = "pexpect.TIMEOUT" THEN "xe_timeout"
                            ELSE "raised"
    /\ UNCHANGED <<opts, issued, idleVars>>

\* run(['VBoxManage', 'controlvm', vmname, 'poweroff']) of the except
\* clause and of the success path.
XePoweroff ==
    /\ mpc \in {"xe_timeout", "xe_poweroff"}
    /\ issued' = Append(issued, "VBoxManage controlvm poweroff")
    /\ \E ok \in BOOLEAN :
          IF ok
          THEN /\ env' = [env EXCEPT !.vm = "stopping"]
               /\ mpc' = IF mpc = "xe_timeout" THEN "xe_cleanup" ELSE "xe_wait_stopped"
               /\ UNCHANGED err
          ELSE /\ err' = XeExit
               /\ mpc' = "exited"
               /\ UNCHANGED env
    /\ UNCHANGED <<opts, hooks, loc, idleVars>>

\* main: the loop that lists the running VMs until the VM is not among
\* them; a pass that finds it lists again at once.
XePollStopped ==
    /\ mpc = "xe_wait_stopped"
    /\ ~ListedRunning(env)
    /\ mpc' = "xe_package"
    /\ UNCHANGED <<opts, err, hooks, issued, loc, env, idleVars>>

\* main from the serial ports to the OVA: each command is run in turn and
\* the script exits at the first that fails.
XePackage ==
    /\ mpc = "xe_package"
    /\ LET cmds == (IF opts.leave_uart THEN <<>>
                    ELSE <<"VBoxManage modifyvm --uart1 off">>)
                   \o <<"VBoxManage modifyvm --uart2 off",
                        "VBoxManage storageattach --port 0 --medium none",
                        "VBoxManage storageattach --port 1 --medium none",
                        "VBoxManage modifymedium --compact",
                        "vagrant package">>
                   \o (IF opts.create_ova THEN <<"VBoxManage export">> ELSE <<>>)
       IN \E n \in 1..(Len(cmds) + 1) :
             LET done == SubSeq(cmds, 1, IF n > Len(cmds) THEN Len(cmds) ELSE n - 1)
                 did(c) == \E i \in 1..Len(done) : done[i] = c
             IN /\ issued' = issued \o SubSeq(cmds, 1, IF n > Len(cmds) THEN Len(cmds) ELSE n)
                /\ env' = [env EXCEPT
                      !.uarts = @ - (IF did("VBoxManage modifyvm --uart1 off") THEN 1 ELSE 0)
                                  - (IF did("VBoxManage modifyvm --uart2 off") THEN 1 ELSE 0),
                      !.box = did("vagrant package"),
                      !.ova = did("VBoxManage export")]
                /\ IF n > Len(cmds)
                   THEN /\ mpc' = "xe_cleanup"
                        /\ UNCHANGED err
                   ELSE /\ mpc' = "exited"
                        /\ err' = XeExit
    /\ UNCHANGED <<opts, hooks, loc, idleVars>>

\* cleanup_vmname of iosxe_iso2vbox.py: power the VM off if it is listed as
\* running, unregister it if it is registered, without waiting in between.
XeCleanup ==
    /\ mpc = "xe_cleanup"
    /\ hooks' = Append(hooks, "cleanup_vmname")
    /\ \E off, unreg \in BOOLEAN :
          LET cmds == (IF ListedRunning(env)
                       THEN <<"VBoxManage controlvm poweroff">> ELSE <<>>)
                      \o (IF (ListedRunning(env) => off) /\ env.registered
                          THEN <<"VBoxManage unregistervm --delete">> ELSE <<>>)
              fails == \/ ListedRunning(env) /\ ~off
                       \/ env.registered /\ ~unreg
          IN /\ issued' = issued \o cmds
             /\ env' = [env EXCEPT
                   !.vm = IF ListedRunning(env) /\ off THEN "stopping" ELSE @,
                   !.registered = @ /\ fails]
             /\ mpc' = IF fails THEN "exited" ELSE "done"
             /\ err' = IF fails THEN XeExit ELSE err
    /\ UNCHANGED <<opts, loc, idleVars>>

\* main when the VM is defined and about to be started.
XeInit ==
    /\ IdleEngine(MainMaxtime)
    /\ sessions = <<>>
    /\ cur = TtyXr + 1
    /\ \E d, o, u \in BOOLEAN :
          opts = [debug |-> d, create_ova |-> o, leave_uart |-> u]
    /\ mpc = "xe_start"
    /\ hooks = <<>>
    /\ err = NoError
    /\ issued = <<>>
    /\ loc = [caught |-> NoError]
    /\ env = [vm |-> "off", registered |-> TRUE, uarts |-> 2,
              configured |-> FALSE, box |-> FALSE, ova |-> FALSE]

XeNext ==
    \/ VmMoves
    \/ XeStart
    \/ XeConfigure
    \/ XePoweroff
    \/ XePollStopped
    \/ XePackage
    \/ XeCleanup

SpecXe == XeInit /\ [][XeNext]_vars /\ WF_vars(XeNext)

\* ------------------------------------------------------ iosxr_test.py
\* The checks of the two suites: the line sent and the text expected.
TestChecks(suite, o) ==
    IF suite = "test_linux"
    THEN << [send |-> "whoami", expect |-> "vagrant"],
            [send |-> "ping -c 4 google.com | grep '64 bytes' | wc -l", expect |-> "4"],
            [send |-> "cat /etc/resolv.conf | grep 220",
             expect |-> "nameserver 208.67.220.220"],
            [send |-> "cat /etc/resolv.conf | grep 222",
             expect |-> "nameserver 208.67.222.222"],
            [send |-> "grep \"public\" ~/.ssh/authorized_keys -c", expect |-> "0"] >>
    ELSE << [send |-> "show version | i cisco IOS XRv x64", expect |-> "XRv x64"],
            [send |-> "show run | i username", expect |-> "username vagrant"] >>
         \o (IF o.full THEN << [send |-> "show run grpc", expect |-> "port 57777"] >>
             ELSE <<>>)

\* A check that lets a timeout pass.
CheckResultLenient(result) == result \in {0, 2}

\* check_result: True for result 0; False for 1 (EOF), 2 (timeout) and
\* anything else.
CheckResult(result) ==
    IF result = 0 THEN TRUE
    ELSE IF result = 1 THEN FALSE
    ELSE IF result = 2 THEN FALSE
    ELSE FALSE

\* The suite that follows a suite, or main's verdict.
TestAfter(suite) == IF suite = "test_linux" THEN "test_xr" ELSE "verdict"

\* test_linux and test_xr up to the first check.  test_xr returns True at
\* once for a box without 'k9' in its name; a login that fails raises
\* ExceptionPxssh, after which test_linux returns False and test_xr falls
\* off its end.
TestLogin ==
    /\ mpc \in {"test_linux", "test_xr"}
    /\ hooks' = Append(hooks, mpc)
    /\ IF mpc = "test_xr" /\ ~opts.k9
       THEN /\ loc' = [loc EXCEPT !.result[mpc] = "True"]
            /\ mpc' = TestAfter(mpc)
            /\ UNCHANGED issued
       ELSE \E ok \in BOOLEAN :
               IF ok
               THEN /\ issued' = issued \o (IF mpc = "test_xr"
                                            THEN <<"term length 0">> ELSE <<>>)
                    /\ loc' = [loc EXCEPT !.suite = mpc, !.step = 1]
                    /\ mpc' = "check"
               ELSE /\ loc' = [loc EXCEPT
                         !.result[mpc] = IF mpc = "test_linux" THEN "False" ELSE "None",
                         !.login_failed = @ \cup {mpc}]
                    /\ mpc' = TestAfter(mpc)
                    /\ UNCHANGED issued
    /\ UNCHANGED <<opts, err, env, idleVars>>

\* One check of a suite: sendline, expect([text, EOF, TIMEOUT]),
\* check_result; the suite returns False at the first check that fails and
\* True after the last.
TestCheck ==
    /\ mpc = "check"
    /\ LET checks == TestChecks(loc.suite, opts)
       IN /\ issued' = Append(issued, checks[loc.step].send)
          /\ \E result \in 0..2 :
                LET l == [loc EXCEPT !.checks =
                             Append(@, [suite |-> loc.suite, result |-> result])]
                IN IF ~CheckResult(result)
                   THEN /\ loc' = [l EXCEPT !.result[loc.suite] = "False"]
                        /\ mpc' = TestAfter(loc.suite)
                   ELSE IF loc.step = Len(checks)
                   THEN /\ loc' = [l EXCEPT !.result[loc.suite] = "True"]
                        /\ mpc' = TestAfter(loc.suite)
                   ELSE /\ loc' = [l EXCEPT !.step = @ + 1]
                        /\ UNCHANGED mpc
    /\ UNCHANGED <<opts, err, hooks, env, idleVars>>

\* The end of main: False if either result is not True.
TestVerdict ==
    /\ mpc = "verdict"
    /\ loc' = [loc EXCEPT !.returned =
                  IF loc.result["test_linux"] # "True" \/ loc.result["test_xr"] # "True"
                  THEN "False" ELSE "True"]
    /\ mpc' = "done"
    /\ UNCHANGED <<opts, err, hooks, issued, env, idleVars>>

\* main after bringup_vagrant, for any name of the box.
TestInit ==
    /\ IdleEngine(MainMaxtime)
    /\ sessions = <<>>
    /\ cur = TtyXr + 1
    /\ \E k, f \in BOOLEAN : opts = [k9 |-> k, full |-> f]
    /\ mpc = "test_linux"
    /\ hooks = <<>>
    /\ err = NoError
    /\ issued = <<>>
    /\ env = <<>>
    /\ loc = [suite |-> "", step |-> 0, checks |-> <<>>, login_failed |-> {},
              result |-> [t \in {"test_linux", "test_xr"} |-> "unset"],
              returned |-> "unset"]

TestNext ==
    \/ TestLogin
    \/ TestCheck
    \/ TestVerdict

SpecTest == TestInit /\ [][TestNext]_vars

\* ------------------------------------------------ iosxr_store_box.py
\* The environment variables main reads.
StoreVars ==
    {"ARTIFACTORY_USERNAME", "ARTIFACTORY_PASSWORD", "ARTIFACTORY_SENDER",
     "ARTIFACTORY_RECEIVER", "ARTIFACTORY_LOCATION_SNAPSHOT",
     "ARTIFACTORY_LOCATION_RELEASE"}

\* A tool that mails in a test run too.
SendsMailAlways(o) == TRUE

\* `if test_only is False:` before the mail is sent.
SendsMail(o) == o.test_only = FALSE

\* main up to the uploads: sys.exit when a variable of the environment is
\* not set, when the box file does not exist or when the location is not
\* set; generate_hash otherwise.
StoreMain ==
    /\ mpc = "store_main"
    /\ LET location == IF opts.release THEN "ARTIFACTORY_LOCATION_RELEASE"
                       ELSE "ARTIFACTORY_LOCATION_SNAPSHOT"
           needed == {"ARTIFACTORY_USERNAME", "ARTIFACTORY_PASSWORD",
                      "ARTIFACTORY_SENDER", "ARTIFACTORY_RECEIVER"}
       IN IF ~(needed \subseteq env.vars) \/ ~env.box_exists
             \/ location \notin env.vars
          THEN /\ mpc' = "exited"
               /\ err' = PyError("SystemExit")
               /\ UNCHANGED <<loc, env>>
          ELSE /\ loc' = [location |-> location]
               /\ env' = [env EXCEPT !.hash_file = TRUE]
               /\ mpc' = IF opts.test_only THEN "email" ELSE "upload_box"
               /\ UNCHANGED err
    /\ UNCHANGED <<opts, hooks, issued, idleVars>>

\* One of the two run(['curl', '-X', 'PUT', ...]): the box, then the hash
\* file.  run raises when curl fails.
Upload ==
    /\ mpc \in {"upload_box", "upload_hash"}
    /\ LET file == IF mpc = "upload_box" THEN "input_box" ELSE "hash_file"
       IN /\ issued' = Append(issued, "curl -X PUT -T " \o file)
          /\ \E ok \in BOOLEAN :
                IF ok
                THEN /\ env' = [env EXCEPT !.stored = Append(@, file)]
                     /\ mpc' = IF mpc = "upload_box" THEN "upload_hash" ELSE "email"
                     /\ UNCHANGED err
                ELSE /\ err' = BuildError("AbortScriptException: Command failed", "run")
                     /\ mpc' = "raised"
                     /\ UNCHANGED env
    /\ UNCHANGED <<opts, hooks, loc, idleVars>>

\* The end of main: the mail is sent unless this is a test; an
\* SMTPException is logged, any other exception of smtplib leaves main.
Email ==
    /\ mpc = "email"
    /\ IF SendsMail(opts)
       THEN /\ issued' = Append(issued, "smtpObj.sendmail")
            /\ \E o \in {"sent", "SMTPException", "socket.error"} :
                  /\ env' = [env EXCEPT !.mailed = (o = "sent")]
                  /\ err' = IF o = "socket.error" THEN BuildError(o, "main") ELSE err
                  /\ mpc' = IF o = "socket.error" THEN "raised" ELSE "done"
       ELSE /\ mpc' = "done"
            /\ UNCHANGED <<issued, env, err>>
    /\ UNCHANGED <<opts, hooks, loc, idleVars>>

\* iosxr_store_box.py started with any environment and any arguments.
StoreInit ==
    /\ IdleEngine(MainMaxtime)
    /\ sessions = <<>>
    /\ cur = TtyXr + 1
    /\ \E t, r \in BOOLEAN : opts = [test_only |-> t, release |-> r]
    /\ mpc = "store_main"
    /\ hooks = <<>>
    /\ err = NoError
    /\ issued = <<>>
    /\ loc = [location |-> ""]
    /\ \E v \in SUBSET StoreVars, b \in BOOLEAN :
          env = [vars |-> v, box_exists |-> b, hash_file |-> FALSE,
                 stored |-> <<>>, mailed |-> FALSE]

StoreNext ==
    \/ StoreMain
    \/ Upload
    \/ Email

SpecStore == StoreInit /\ [][StoreNext]_vars

\* ------------------------------------------------------------ claims
\* The longest a read_data call of wait or repeat_until can take.
MaxSlice == Secs(SetupRepeatTimeoutSecs) + Overhead

\* C1: wait matches against everything read since the wait began: while the
\* deadline has not passed, a wait whose delivered chunks, concatenated,
\* contain the pattern has returned (it is neither still looping nor timed
\* out), also when the pattern straddles two chunks.
C1_WaitMatchesAccumulated ==
    (pc = "wait_loop" /\ WithinMaxtime(now, time_started))
        => ~ReSearch(wait_txt, delivered)

\* C2: a wait that never reads the pattern does not return data, leaves its
\* loop by the timeout error no later than one read_data slice after the
\* deadline, and does leave it.
C2_WaitSafe ==
    /\ pc = "wait_returned" => ReSearch(wait_txt, data)
    /\ pc \in {"wait_loop", "wait_timed_out"} =>
          now - time_started < Secs(maxtime) + slice
    /\ pc = "wait_timed_out" =>
          /\ now - time_started >= Secs(maxtime)
          /\ now - time_started - Secs(maxtime) <= Secs(timeout) + Overhead
C2_WaitTimesOut ==
    /\ []C2_WaitSafe
    /\ (pc = "wait_loop") ~> (pc # "wait_loop")
C2_Witness ==
    /\ pc = "wait_timed_out"
    /\ delivered # <<>>
    /\ now - time_started > Secs(maxtime)

C4_RepeatSafe ==
    /\ pc = "ru_returned" =>
          /\ answer_at >= 1
          /\ sent = [i \in 1..answer_at |-> ProbeCmd]
          /\ ReSearch(wait_txt, data)
    /\ pc \in {"ru_loop", "ru_timed_out"} =>
          /\ answer_at = 0 \/ Len(sent) < answer_at
          /\ \A i \in 1..Len(sent) : sent[i] = ProbeCmd
          /\ now - time_started < Secs(maxtime) + slice
    /\ pc = "ru_timed_out" => now - time_started >= Secs(maxtime)
C4_RepeatUntilProbes ==
    /\ []C4_RepeatSafe
    /\ (pc = "ru_loop") ~> (pc \in {"ru_returned", "ru_timed_out"})
C4_Witness ==
    /\ pc = "ru_returned"
    /\ answer_at = 3
    /\ Len(sent) = 3

\* C10: in wait, a pass that finds no match sends an empty line exactly when
\* more than 10 s have passed since the wait began or since the previous
\* nudge; the nudge restarts that interval, nothing else does, and a pass
\* that finds the match sends nothing.
C10_Step ==
    (pc = "wait_loop" /\ now' # now) =>
        /\ reply' \in {<<>>, <<"">>}
        /\ reply' = <<"">> <=>
              /\ pc' = "wait_loop"
              /\ now' - time_pressed_enter > Secs(WaitNudgeSecs)
        /\ pc' = "wait_loop" =>
              time_pressed_enter' =
                  IF reply' = <<"">> THEN now' ELSE time_pressed_enter
        /\ sent' = sent \o reply'
C10_WaitNudge == [][C10_Step]_vars
C10_Witness ==
    /\ pc = "wait_loop"
    /\ reply = <<"">>
    /\ Len(sent) >= 2
    /\ caller = "none"

\* Is l the last non-empty line of the data d?
IsLastNonEmpty(l, d) ==
    LET lines == SplitLines(d)
    IN l # <<>> /\ \E i \in 1..Len(lines) :
          /\ lines[i] = l
          /\ \A j \in (i + 1)..Len(lines) : lines[j] = <<>>
\* A pass of the login loop that read data (the stream did not close).
LoginPass == pc = "login_loop" /\ pc' \in {"login_loop", "login_returned"}
LoginAnswers == <<"", username, userpass, userpass>>

\* C5: when the target prints banner, root-system username prompt, secret
\* prompt, secret-again prompt and shell prompt, each in reply to the previous
\* send, login returns having sent one empty line, the username once and the
\* password twice, in that order: 4 sends.
C5_ScriptedLogin ==
    /\ script_pos \in 1..(Len(LoginScript) - 1) =>
          /\ pc = "login_loop"
          /\ sent = SubSeq(LoginAnswers, 1, script_pos)
    /\ script_pos = Len(LoginScript) =>
          /\ pc = "login_returned"
          /\ sent = LoginAnswers
C5_Witness ==
    /\ script_pos = Len(LoginScript)
    /\ pc = "login_returned"
    /\ Len(sent) = 4
    /\ username # userpass

\* C6: a username prompt the target prints again within 5 s of the previous
\* one, which was answered with the username, is answered with an empty line
\* and not with the username again.
C6_Step ==
    ( /\ LoginPass
      /\ prompt_at # 0
      /\ reply = <<username>>
      /\ prompt_at' # 0
      /\ prompt_at' - prompt_at < Secs(UsernameRepeatSecs) )
        => reply' = <<"">>
C6_RepeatedUsernameOnce == [][C6_Step]_vars

\* C7: each pass answers the last non-empty line of the data it read and
\* nothing else: whatever stands before that line, the reply is the canned
\* answer of that line, and a read that ends in a line that is no prompt is
\* not answered.
C7_Canned(l, out) ==
    CASE l = LnBanner -> out = <<"">>
      [] l = LnRootUser -> out = <<username>>
      [] l \in {LnSecret, LnAgain, LnPassword} -> out = <<userpass>>
      [] l = LnUsername -> out \in {<<username>>, <<"">>}
      [] l = LnConfig -> out = <<"exit">>
      [] l = LnUncommitted -> out = <<"no">>
      [] OTHER -> out = <<>>
C7_Step ==
    LoginPass =>
        \A l \in LoginLines : IsLastNonEmpty(l, data') => C7_Canned(l, reply')
C7_LastLineOnly == [][C7_Step]_vars
C7_Witness ==
    /\ pc = "login_loop"
    /\ data = JoinLines(<<LnUsername, LnNoise>>)
    /\ reply = <<>>

\* The longest one pass of the login loop takes: the read, and the pause
\* after a username.
LoginPassMax == Secs(LoginReadSecs) + Secs(UsernameSleepSecs) + 2 * Overhead

\* C8 as stated: login ends either by returning the session or by the
\* "timed out trying to login" error.
C8_ReturnsOrTimesOut ==
    pc \in {"idle", "login_loop", "login_returned", "login_timed_out"}

\* C8 amended: login ends by returning the session in a pass whose last line
\* is a shell prompt, by the end-of-stream error in the pass that met it, or
\* by the "timed out" error once maxtime has passed; it is never in its loop
\* later than maxtime plus one pass, and it does end.
C8_LoginSafe ==
    /\ pc = "login_returned" =>
          \E l \in {LnIos, LnShell} : IsLastNonEmpty(l, data)
    /\ pc = "login_timed_out" => now - time_started >= Secs(maxtime)
    /\ pc \in {"login_loop", "login_timed_out", "login_returned", "eof"} =>
          now - time_started < Secs(maxtime) + LoginPassMax
C8_LoginTerminates ==
    /\ []C8_LoginSafe
    /\ [][pc = "login_loop" => pc' \in {"login_loop", "login_returned",
                                        "login_timed_out", "eof"}]_vars
    /\ (pc = "login_loop") ~> (pc \in {"login_returned", "login_timed_out", "eof"})
C8_Witness ==
    /\ pc = "login_timed_out"
    /\ now - time_started > Secs(maxtime)

\* C9: a pass whose read ends in no known prompt sends an empty line exactly
\* when more than 5 s have passed since output last arrived or an empty line
\* was last sent (at once when the first read is silent), and nothing else;
\* the loop goes on; a read with a non-empty line restarts the interval, so
\* that pass sends nothing.
C9_Step ==
    ( /\ LoginPass
      /\ \A l \in KnownPrompts : ~IsLastNonEmpty(l, data') )
        => LET output == \E i \in 1..Len(data') : data'[i] # NL
               since == IF output THEN now' ELSE time_pressed_enter
               due == now' - since > Secs(LoginNudgeSecs)
           IN /\ reply' = IF due THEN <<"">> ELSE <<>>
              /\ pc' = "login_loop"
              /\ time_pressed_enter' = IF due \/ output THEN now' ELSE time_pressed_enter
              /\ time_seen_username_prompt' = time_seen_username_prompt
              /\ output => reply' = <<>>
              /\ (~output /\ time_pressed_enter = 0) => reply' = <<"">>
C9_QuietNudge == [][C9_Step]_vars
C9_Witness ==
    /\ pc = "login_loop"
    /\ data = <<>>
    /\ reply = <<"">>
    /\ time_pressed_enter = now
    /\ now - time_started > 2 * Secs(LoginReadSecs)

\* The fields of an exception's message.
Carries(e, txt) == \E i \in 1..Len(e.about) : e.about[i] = txt

\* C20: the error repeat_until raises when its deadline runs out names the
\* session and carries both the probe text last sent and the pattern that
\* was awaited.
C20_RepeatErrorCarriesProbeAndPattern ==
    pc = "ru_timed_out" =>
        /\ err.session = SessionName(sessions, cur)
        /\ Carries(err, ProbeCmd)
        /\ Carries(err, MgmtTxt)

\* A step in which the client's send() call wrote to the transport.
SendStep ==
    /\ pc = "idle"
    /\ pc' = "idle"
    /\ reply' # <<>>
    /\ \/ reply' # reply
       \/ now' # now
       \/ \E t \in 1..Len(sessions) : sessions'[t].wrote # sessions[t].wrote

\* C11: send writes exactly one line, the text and a line terminator, to the
\* transport of its session and does nothing else: no time passes, nothing is
\* read, and the unread output of the session stays as it was.
C11_Step ==
    SendStep =>
        /\ \E txt \in SendTexts :
              /\ reply' = <<txt>>
              /\ sessions'[cur].wrote = <<txt, NL>>
        /\ sessions'[cur].unread = sessions[cur].unread
        /\ sessions'[cur].eof = sessions[cur].eof
        /\ \A t \in 1..Len(sessions) : t # cur => sessions'[t] = sessions[t]
        /\ UNCHANGED <<now, data, err, cur, time_started, time_pressed_enter>>
C11_SendWritesOneLine == [][C11_Step]_vars
C11_Witness ==
    /\ pc = "idle"
    /\ reply # <<>>
    /\ sessions[cur].wrote = <<reply[1], NL>>
    /\ sessions[cur].unread # <<>>
    /\ sessions[cur].stale > 0

\* A step in which the client's read_data() call ran.
ReadStep == pc = "idle" /\ now' # now

\* C12: read_data tells end-of-stream from "nothing to read": on a live
\* transport with no output it returns empty data and raises nothing, and it
\* raises the EOF error exactly when the child has gone and nothing is left
\* to read; it never returns empty data for a closed stream.
C12_Step ==
    ReadStep =>
        LET tr == sessions[cur]
            closed == tr.eof /\ tr.unread = <<>>
        IN /\ pc' = IF closed THEN "eof" ELSE "idle"
           /\ closed =>
                 /\ err' = EofError(SessionName(sessions, cur), "")
                 /\ err'.kind # NoError.kind
           /\ ~closed =>
                 /\ err' = NoError
                 /\ Len(data') >= Len(tr.unread)
                 /\ SubSeq(data', 1, Len(tr.unread)) = tr.unread
                 /\ sessions'[cur].unread = <<>>
C12_EofAndTimeoutDistinct == [][C12_Step]_vars
C12_Witness ==
    /\ pc = "idle"
    /\ now > Epoch
    /\ data = <<>>
    /\ err = NoError
    /\ ~sessions[cur].eof

\* C18: when the session was drained before the send (a read_data call had
\* returned and the target had printed nothing since), the data a later wait
\* returns as its match holds nothing the target printed before that send.
C18_ResponseAfterStimulus ==
    (pc = "wait_returned" /\ sessions[cur].clean_send)
        => sessions[cur].got_stale = 0
C18_Witness ==
    /\ pc = "wait_returned"
    /\ sessions[cur].clean_send
    /\ data # <<>>
    /\ now - Epoch > 2 * Secs(DefaultTimeoutSecs)

\* A step of the environment alone: a target prints or goes away.
EnvStep ==
    /\ UNCHANGED <<now, pc, data, reply, err, cur>>
    /\ \A t \in 1..Len(sessions) : sessions'[t].wrote = sessions[t].wrote

\* C19: an operation on one session reads and writes that session's
\* transport only: every step of the engine leaves the other sessions of the
\* node as they were, and what a read returns begins with the unread output
\* of the session it was called on.
C19_Step ==
    ~EnvStep =>
        /\ \A t \in 1..Len(sessions) : t # cur => sessions'[t] = sessions[t]
        /\ (now' # now /\ pc' # "eof") =>
              /\ Len(data') >= Len(sessions[cur].unread)
              /\ SubSeq(data', 1, Len(sessions[cur].unread)) = sessions[cur].unread
LoopPcs == {"wait_loop", "ru_loop", "xp_loop", "login_loop"}
\* What a pass of the loop standing at `at` writes before it reads, and the
\* debug text and read slice of its read_data call.
PreReadSends(at) ==
    CASE at = "ru_loop" -> <<ProbeCmd>>
      [] at = "xp_loop" -> IF now - time_pressed_enter > Secs(PromptNudgeSecs)
                           THEN <<"">> ELSE <<>>
      [] OTHER -> <<>>
ReadDebug(at) ==
    CASE at = "ru_loop" -> RepeatDebug
      [] at = "xp_loop" -> PromptDebug(caller)
      [] at = "login_loop" -> LoginDebug
      [] OTHER -> ""
ReadSlice(at) == IF at = "login_loop" THEN LoginReadSecs ELSE timeout

\* C13: when a read inside wait, repeat_until, wait_xr_exec,
\* wait_xr_conf_mode or wait_xr_login meets end-of-stream the operation ends
\* in that pass with the EOF error: a pass on a transport whose child has
\* gone and that holds nothing unread always ends so, the pass takes one read
\* and no more, all it has written is what the loop writes before its read,
\* and nothing is written or read after the error.
C13_Step ==
    /\ (pc \in LoopPcs /\ now' # now
            /\ sessions[cur].eof /\ sessions[cur].unread = <<>>)
          => pc' = "eof"
    /\ (pc \in LoopPcs /\ pc' = "eof") =>
          /\ err' = [kind |-> "EOF on connection for",
                     session |-> <<NodeName, sessions[cur].port_name>>,
                     about |-> <<ReadDebug(pc)>>]
          /\ now' = now + Secs(ReadSlice(pc)) + Overhead
          /\ sessions'[cur].wrote = Lines(PreReadSends(pc))
          /\ Len(sent') <= Len(sent) + Len(PreReadSends(pc))
    /\ pc = "eof" => UNCHANGED <<pc, now, err, sessions, sent, reply>>
C13_ClosureIsFatal == [][C13_Step]_vars
C13_Witness ==
    /\ pc = "eof"
    /\ caller \in PromptOps
    /\ err.about = <<PromptDebug(caller)>>
    /\ reply = <<"">>
    /\ sessions[cur].wrote = <<"", NL>>

\* Has main invoked the hook?
Invoked(h) == \E i \in 1..Len(hooks) : hooks[i] = h

\* C14: once Node.close has been called every transport of the node is
\* closed, and each was closed exactly once, whether or not a session was
\* closed individually before.
C14_CloseClosesEachOnce ==
    Invoked("post_node") =>
        \A s \in 1..Len(sessions) :
            sessions[s].closed /\ sessions[s].closes = 1

\* C15: the constructor spawns one session per requested command, in the
\* order of the request, and the session wait_xr_login works on is the
\* first one requested.
C15_OneSessionPerChannel ==
    (mpc # "main" /\ opts.clean = FALSE) =>
        /\ Len(sessions) = Len(PortNames(opts.cmds))
        /\ \A i \in 1..Len(sessions) :
              sessions[i].port_name = PortNames(opts.cmds)[i]
        /\ pc \in {"login_loop", "login_returned", "login_timed_out"} =>
              /\ cur = 1
              /\ sessions[cur].port_name = opts.cmds[1]
C15_Witness ==
    /\ pc = "login_returned"
    /\ Len(sessions) = 3
    /\ opts.cmds[1] = Cmd(3)
    /\ sessions[3].port_name = SocatCmd

\* C16: main invokes clean_node when pre_node or run_node has failed.
C16_CleanAfterFailure ==
    (mpc = "aborted" /\ opts.clean = FALSE /\ Invoked("run_node")
        /\ ~Invoked("post_node")) => Invoked("clean_node")

\* C17: no run ends, in success or in failure, with a spawned transport
\* still open.
C17_AllClosedAtEnd ==
    mpc \in {"done", "aborted"} =>
        \A s \in 1..Len(sessions) : sessions[s].closed

\* C28: while wait_xr_conf_mode has read no configuration prompt, what it
\* writes in a pass of its loop re-issues 'conf t'.
C28_ConfTReissued ==
    (caller = "wait_xr_conf_mode" /\ pc = "xp_loop" /\ now > op_started
        /\ reply # <<>>)
        => \E i \in 1..Len(reply) : reply[i] = "conf t"

\* Has the script sent the line?
WasSent(txt) == \E i \in 1..Len(sent) : sent[i] = txt

\* C29: the ssh lines and the key generation are sent only with the k9 flag
\* set and the grpc lines only with the full flag set; a configuration that
\* went through has sent them whenever the flag was set; and once both
\* flags are determined, before configuration mode is entered, they do not
\* change.
C29_Branches ==
    /\ (WasSent("ssh server v2") \/ WasSent("ssh server vrf default")
            \/ WasSent("crypto key generate rsa")) => loc.k9
    /\ (WasSent("grpc") \/ WasSent(" port 57777")) => loc.full
    /\ mpc = "done" =>
          /\ loc.k9 => /\ WasSent("ssh server v2")
                       /\ WasSent("ssh server vrf default")
                       /\ WasSent("crypto key generate rsa")
          /\ loc.full => WasSent("grpc") /\ WasSent(" port 57777")
C29_Step ==
    /\ mpc \in {"configure", "done", "failed"} => loc' = loc
    /\ C29_Branches'
C29_FlagsDecideBranches == [][C29_Step]_vars
C29_Witness ==
    /\ mpc = "done"
    /\ loc.k9
    /\ ~loc.full
    /\ WasSent("ssh server v2")
    /\ ~WasSent("grpc")

\* C30: once the wait after a probe has returned, the flag is set exactly
\* when the image has the package the probe asked for.
C30_FlagsMatchImage ==
    /\ mpc \in {"mgbl_wait", "configure", "done"} => (loc.k9 <=> env.k9)
    /\ mpc \in {"configure", "done"} => (loc.full <=> env.mgbl)

\* Has main entered the function?  Has the script run the command?
Entered(f) == \E i \in 1..Len(hooks) : hooks[i] = f
Ran(c) == \E i \in 1..Len(issued) : issued[i] = c
\* The tries of the running call of xr_cli_wait_for_output are in loc.tries.
InRetry ==
    \/ mpc \in {"xr_cli_wait_for_output", "returned"}
    \/ mpc = "except" /\ err.about = <<"xr_cli_wait_for_output">>

C22_CleanupOnceThenReraise ==
    LET n == Cardinality({i \in 1..Len(hooks) :
                              hooks[i] = "cleanup_vmname(delete=True)"})
    IN /\ n = IF mpc \in {"done", "raised", "test_main", "cleanup_poll",
                          "cleanup_delete"} /\ loc.site = "main"
              THEN 1 ELSE 0
       /\ mpc \in {"done", "raised", "test_main"} => loc.site = "main"
       /\ loc.caught # NoError =>
             /\ mpc \notin {"done", "test_main"}
             /\ ~Entered("test_main")
             /\ mpc = "raised" =>
                   \/ err = loc.caught
                   \/ err.about = <<"cleanup_vmname">>
C22_Witness ==
    /\ mpc = "raised"
    /\ loc.caught # NoError
    /\ err = loc.caught
    /\ Entered("cleanup_vmname(delete=True)")
\* C22 as stated: the exception of the block is the one main ends with.
C22_Original ==
    (mpc = "raised" /\ loc.caught # NoError) => err = loc.caught

\* C23: when cleanup_vmname returns normally its last listing of the
\* running VMs did not name the VM and the VM is not on its way down; it
\* issues 'controlvm poweroff' only for a VM listed as running; it
\* unregisters only with delete True, a registered VM and the VM observed
\* stopped.
C23_Step ==
    /\ (mpc = "cleanup_delete" /\ err' = err) =>
          (loc.observed /\ env'.vm \notin {"stopping"})
    /\ (issued' # issued /\ issued'[Len(issued')] = "VBoxManage controlvm poweroff") =>
          (env.vm \in {"running", "stopping"})
    /\ (issued' # issued /\ issued'[Len(issued')] = "VBoxManage unregistervm --delete") =>
          (loc.delete /\ env.registered /\ loc.observed /\ env.vm # "stopping")
C23_CleanupSteps == [][C23_Step]_vars
C23_Witness ==
    /\ Ran("VBoxManage controlvm poweroff")
    /\ Ran("VBoxManage unregistervm --delete")
    /\ ~env.registered
    /\ env.vm = "off"

\* C24: cleanup_vmname always comes to an end; its loop sleeps at most
\* TIMEOUT/RETRY_INTERVAL times, leaves as soon as a listing does not name
\* the VM, raises only when the sleeps add up to TIMEOUT and the VM is
\* still listed, and does not unregister when it raises.
C24_Step ==
    /\ mpc = "cleanup_poll" =>
          /\ loc.elapsed_time <= TIMEOUT
          /\ loc.elapsed_time % RETRY_INTERVAL = 0
          /\ mpc' = "cleanup_delete" <=> env.vm \notin {"running", "stopping"}
          /\ err' # err =>
                /\ loc.elapsed_time = TIMEOUT
                /\ env.vm \in {"running", "stopping"}
                /\ err'.kind = "AbortScriptException: VM still not stopped"
                /\ mpc' \in {"except", "raised"}
                /\ env' = env
          /\ loc'.elapsed_time # loc.elapsed_time =>
                \/ loc'.elapsed_time = loc.elapsed_time + RETRY_INTERVAL
                \/ mpc' = "cleanup_delete"
    /\ (err' # err /\ mpc \in {"cleanup_poll", "cleanup_delete"}) =>
          env'.registered = env.registered
C24_CleanupTerminates ==
    /\ [][C24_Step]_vars
    /\ (mpc \in {"cleanup_vmname", "finally", "cleanup_poll", "cleanup_delete"})
          ~> (mpc \notin {"cleanup_vmname", "finally", "cleanup_poll", "cleanup_delete"})
C24_Witness ==
    /\ err.kind = "AbortScriptException: VM still not stopped"
    /\ mpc = "raised"
    /\ env.registered

C27_DebugLeavesVmRunning ==
    (opts.debug /\ env.configured /\ Entered("pause_to_debug")
        /\ mpc \in {"done", "raised"}) =>
        (env.vm = "running" /\ env.registered)

\* C26: with --test_only nothing is uploaded and no mail is sent; without
\* it the box is uploaded before the hash file, the hash file only after
\* the box was stored, and the mail is attempted only after both were
\* stored.
C26_StoreOrder ==
    /\ opts.test_only => (issued = <<>> /\ env.stored = <<>> /\ ~env.mailed)
    /\ \E n \in 0..3 :
          issued = SubSeq(<<"curl -X PUT -T input_box", "curl -X PUT -T hash_file",
                            "smtpObj.sendmail">>, 1, n)
    /\ Ran("curl -X PUT -T hash_file") => env.stored[1] = "input_box"
    /\ Ran("smtpObj.sendmail") => env.stored = <<"input_box", "hash_file">>
    /\ (mpc = "done" /\ ~opts.test_only) => Ran("smtpObj.sendmail")
C26_Witness ==
    /\ mpc = "done"
    /\ ~opts.test_only
    /\ env.mailed
    /\ env.stored = <<"input_box", "hash_file">>

\* C32: live_config_vbox_vm leaves its first loop for configure_xr exactly
\* when a listing names the VM, sleeps RETRY_INTERVAL per pass otherwise,
\* and raises 'VM still not running' only when the sleeps add up to TIMEOUT
\* and the VM is still not listed; while configure_xr runs the VM is
\* running, and after that exception configure_xr has not been entered.
C32_Running ==
    /\ mpc \in {"configure_xr", "xr_cli_wait_for_output", "returned"} =>
          env.vm = "running"
    /\ err.kind = "AbortScriptException: VM still not running" =>
          /\ ~env.configured
          /\ loc.call = 0
          /\ mpc \notin {"configure_xr", "xr_cli_wait_for_output", "returned"}
C32_Step ==
    /\ mpc = "wait_running" =>
          /\ loc.elapsed_time <= TIMEOUT
          /\ mpc' = "configure_xr" <=> env.vm \in {"running", "stopping"}
          /\ err' # err =>
                /\ loc.elapsed_time = TIMEOUT
                /\ env.vm \notin {"running", "stopping"}
                /\ err'.kind = "AbortScriptException: VM still not running"
                /\ mpc' = "except"
          /\ (mpc' = "wait_running" /\ env' = env) =>
                loc'.elapsed_time = loc.elapsed_time + RETRY_INTERVAL
    /\ C32_Running'
C32_ConfigureAfterRunning == [][C32_Step]_vars
C32_Witness ==
    /\ mpc = "except"
    /\ err.kind = "AbortScriptException: VM still not running"
    /\ env.vm = "starting"
    /\ Ran("VBoxManage showvminfo")

\* C33 (amended): after a pexpect TIMEOUT from the configuration
\* iosxe_iso2vbox.main packages no box and exports no OVA, and when it
\* returns the VM was told to power off and is unregistered; it returns
\* unless a VBoxManage command of the except clause or of cleanup_vmname
\* fails, which ends the script in run.  On the success path the box is
\* packaged only when the VM is off.
C33_TimeoutPath ==
    /\ loc.caught # NoError =>
          /\ ~env.box /\ ~env.ova
          /\ ~Ran("vagrant package") /\ ~Ran("VBoxManage export")
          /\ mpc \in {"xe_timeout", "xe_cleanup", "done", "exited"}
          /\ mpc = "done" =>
                /\ Ran("VBoxManage controlvm poweroff")
                /\ env.vm \in {"stopping", "off"}
                /\ ~env.registered
          /\ mpc = "exited" => err = XeExit
    /\ Ran("vagrant package") => env.vm = "off"
C33_Witness ==
    /\ loc.caught # NoError
    /\ mpc = "done"
    /\ ~env.registered
\* C33 as stated: after the TIMEOUT main returns with the VM powered off
\* and unregistered.
C33_Original ==
    (loc.caught # NoError /\ mpc \notin {"xe_timeout", "xe_cleanup"}) =>
        (mpc = "done" /\ ~env.registered)

\* C34: check_result is True for result 0 only; a check that failed is the
\* last check of its suite and the suite did not return True; a suite whose
\* login failed did not return True; and main returns True exactly when
\* both suites returned True, False otherwise.
C34_Verdict ==
    /\ \A result \in 0..MaxIndex : CheckResult(result) <=> (result = 0)
    /\ \A i \in 1..Len(loc.checks) :
          loc.checks[i].result # 0 =>
             /\ loc.result[loc.checks[i].suite] = "False"
             /\ \A j \in (i + 1)..Len(loc.checks) :
                   loc.checks[j].suite # loc.checks[i].suite
    /\ \A t \in loc.login_failed : loc.result[t] \in {"False", "None"}
    /\ mpc = "done" =>
          /\ loc.returned \in {"True", "False"}
          /\ loc.returned = "True" <=>
                (loc.result["test_linux"] = "True" /\ loc.result["test_xr"] = "True")
          /\ loc.login_failed # {} => loc.returned = "False"
C34_Witness ==
    /\ mpc = "done"
    /\ loc.returned = "False"
    /\ loc.result["test_linux"] = "True"
    /\ loc.login_failed = {"test_xr"}

\* The first prompt rule the line hits, 0 when it hits none.
FirstHit(line) ==
    IF RuleHits[line] = {} THEN 0
    ELSE CHOOSE i \in RuleHits[line] : \A j \in RuleHits[line] : i <= j
\* The index of the "Username:" rule in the chain.
UsernameRule == CHOOSE i \in 1..Len(LoginRules) : LoginRules[i].act = "username"

\* C35: when a pass of the login loop tests its rules and the username was
\* sent to a "Username:" prompt before, at least 5 s have gone by since that
\* prompt was recorded; so the "repeated too soon" branch is never taken: a
\* pass whose last non-empty line is "Username:" sends the username, and
\* nothing else, and records the prompt anew.
C35_Step ==
    LoginPass =>
        LET tread == SleepEnd(now, LoginReadSecs)
        IN /\ time_seen_username_prompt # 0 =>
                 /\ tread - time_seen_username_prompt >= Secs(UsernameRepeatSecs)
                 /\ ~UsernameTooSoon(tread, time_seen_username_prompt)
           /\ FirstHit(InputOf[data']) = UsernameRule =>
                 /\ reply' = <<username>>
                 /\ time_seen_username_prompt' = tread
                 /\ now' = SleepEnd(tread, UsernameSleepSecs)
                 /\ pc' = "login_loop"
           /\ FirstHit(InputOf[data']) # UsernameRule =>
                 time_seen_username_prompt' = time_seen_username_prompt
C35_UsernameNeverTooSoon == [][C35_Step]_vars
\* Two passes running that each answered "Username:": only a pass that
\* answers "Username:" sleeps after its send, so only two such passes take
\* twice the time of one.
C35_Witness ==
    /\ pc = "login_loop"
    /\ IsLastNonEmpty(LnUsername, data)
    /\ reply = <<username>>
    /\ time_seen_username_prompt # 0
    /\ now - time_started = 2 * SleepEnd(SleepEnd(0, LoginReadSecs), UsernameSleepSecs)

\* What the first rule a line hits does, "none" when it hits no rule.
FirstAct(line) ==
    IF FirstHit(line) = 0 THEN "none" ELSE LoginRules[FirstHit(line)].act
\* The rules that return the session, and the rules tested before them.
ShellRules == {i \in 1..Len(LoginRules) : LoginRules[i].act = "return"}
EarlierRules == {i \in 1..Len(LoginRules) : \A j \in ShellRules : i < j}

\* C31: the rules are tested in one fixed order and the first one the last
\* non-empty line matches decides the pass: the configuration prompt, which
\* the last shell rule matches as well, is answered with "exit" and
\* "Uncommitted changes found" with "no", and the loop goes on; login returns
\* exactly in a pass whose last non-empty line matches a shell rule and none of
\* the rules before them.
C31_Step ==
    LoginPass =>
        LET line == InputOf[data']
            act == FirstAct(line)
        IN /\ IsLastNonEmpty(LnConfig, data') =>
                 /\ RuleHits[line] \cap ShellRules # {}
                 /\ reply' = <<"exit">>
                 /\ pc' = "login_loop"
           /\ IsLastNonEmpty(LnUncommitted, data') =>
                 /\ reply' = <<"no">>
                 /\ pc' = "login_loop"
           /\ pc' = "login_returned" <=>
                 /\ RuleHits[line] \cap ShellRules # {}
                 /\ RuleHits[line] \cap EarlierRules = {}
           /\ pc' = "login_returned" =>
                 /\ \E l \in {LnIos, LnShell} : IsLastNonEmpty(l, data')
                 /\ reply' = <<>>
           /\ act = "enter" => reply' = <<"">>
           /\ act \in {"rootuser", "username"} => reply' = <<username>>
           /\ act = "pass" => reply' = <<userpass>>
           /\ act = "exit" => reply' = <<"exit">>
           /\ act = "no" => reply' = <<"no">>
C31_FirstRuleWins == [][C31_Step]_vars
C31_Witness ==
    /\ pc = "login_loop"
    /\ IsLastNonEmpty(LnConfig, data)
    /\ RuleHits[InputOf[data]] \cap ShellRules # {}
    /\ reply = <<"exit">>

\* The answer of wait_xr_login to each prompt, whatever came before.
C36_Canned(l) ==
    CASE l = LnBanner -> <<"">>
      [] l \in {LnRootUser, LnUsername} -> <<username>>
      [] l \in {LnSecret, LnAgain, LnPassword} -> <<userpass>>
      [] l = LnConfig -> <<"exit">>
      [] l = LnUncommitted -> <<"no">>
      [] OTHER -> <<>>

\* C36: the loop carries nothing from pass to pass but its two timestamps:
\* what a pass sends, and whether it returns, is decided by the last
\* non-empty line of its read alone.  Each prompt gets its canned answer
\* whatever was seen or sent before: the password prompts get the password
\* when no username was sent, a shell prompt ends the login when nothing was
\* sent, and a line that is no prompt gets at most the empty line of the
\* nudge, which depends on time_pressed_enter only.
C36_Step ==
    LoginPass =>
        LET tread == SleepEnd(now, LoginReadSecs)
        IN /\ \A l \in KnownPrompts :
                 IsLastNonEmpty(l, data') =>
                    /\ reply' = C36_Canned(l)
                    /\ pc' = "login_returned" <=> l \in {LnIos, LnShell}
           /\ (~\E l \in KnownPrompts : IsLastNonEmpty(l, data')) =>
                 /\ pc' = "login_loop"
                 /\ reply' = IF LoginNudgeDue(tread,
                                   IF HasOutput[data'] THEN tread
                                   ELSE time_pressed_enter)
                             THEN <<"">> ELSE <<>>
           /\ time_seen_username_prompt' =
                 IF IsLastNonEmpty(LnUsername, data')
                 THEN tread ELSE time_seen_username_prompt
C36_StatelessAnswers == [][C36_Step]_vars
\* The first pass read a shell prompt: login returned, nothing sent.
C36_Witness ==
    /\ pc = "login_returned"
    /\ now - time_started = SleepEnd(0, LoginReadSecs)
    /\ time_seen_username_prompt = 0
    /\ reply = <<>>

=============================================================================
